---- MODULE Spec2Model ----
(***************************************************************************)
(* A state-machine model of the pythia interpreter core                    *)
(* (src/src/interp.rs, src/src/interp/prelude.rs): the clock and handle    *)
(* counters, the invalid-clock set, the union-find unifier with its        *)
(* clock-stamped cache, the undo log, the choice trace and the trampolined *)
(* evaluator (resume_ / interp_).                                          *)
(*                                                                         *)
(* Handles (SNum) are modelled by their key, a natural number; 0 is nil.   *)
(* Clocks (LClk) are natural numbers; 0 is nil.  Maps are functions whose  *)
(* domain is the set of present keys.  An Option is a sequence of length   *)
(* zero or one.                                                            *)
(***************************************************************************)
EXTENDS Integers, Sequences, FiniteSets, TLC

VARIABLES interp, run, hist

vars == <<interp, run, hist>>

(* ------------------------------------------------------------------ *)
(* Bounds of the model.                                                *)
(* ------------------------------------------------------------------ *)

\* Handles the unifier unit specification unifies: 1..NumHandles.
NumHandles == 3

\* Largest clock the unifier unit specification reaches.
MaxUClk == 4

\* Calls of interp_ a run of the interpreter specification makes.
MaxCalls == 2

\* Clocks the invalid set alone is driven over: 0 .. MaxIClk.
MaxIClk == 4

\* Handles, largest clock and inserts into the invalid set of the
\* specification that drives _find against an invalid set.
NumFHandles == 3

MaxFClk == 1

MaxFInserts == 1

\* The handle and clock counters driven alone: at most MaxKFresh calls of
\* fresh() in one run, and clock ticks up to MaxKClk.
MaxKFresh == 2

MaxKClk == 2

\* The choice trace driven alone: clocks 1 .. MaxTClk, at most MaxTFrames
\* frames in the buffer.
MaxTClk == 3

MaxTFrames == 3

(* ------------------------------------------------------------------ *)
(* Helpers for maps and options.                                       *)
(* ------------------------------------------------------------------ *)

EmptyMap == <<>>

Has(f, k) == k \in DOMAIN f

Put(f, k, v) == [x \in (DOMAIN f) \cup {k} |-> IF x = k THEN v ELSE f[x]]

Del(f, k) == [x \in (DOMAIN f) \ {k} |-> f[x]]

None == <<>>

Some(v) == <<v>>

Max2(a, b) == IF a >= b THEN a ELSE b

Min2(a, b) == IF a <= b THEN a ELSE b

(* ------------------------------------------------------------------ *)
(* LClkInvalidSet: a map lb -> ub of half-open clock ranges.           *)
(* ------------------------------------------------------------------ *)

\* BTreeMap::range(..= v).next_back(): the entry with the greatest lb <= v.
clkinval_find(inner, v) ==
  LET below == {lb \in DOMAIN inner : lb <= v}
  IN  IF below = {} THEN None
      ELSE LET lb == CHOOSE x \in below : \A y \in below : y <= x
           IN  IF lb <= v /\ v < inner[lb]
               THEN Some([lb |-> lb, ub |-> inner[lb]])
               ELSE None

clkinval_contains(inner, v) == clkinval_find(inner, v) # None

\* Returns [ok, inner].
clkinval_insert(inner, lb, ub) ==
  IF lb >= ub THEN [ok |-> FALSE, inner |-> inner]
  ELSE
    LET l == clkinval_find(inner, lb)
        u == clkinval_find(inner, ub)
    IN  [ok |-> TRUE,
         inner |->
           IF l # None /\ u # None THEN
             IF l[1].lb # u[1].lb
             THEN Put(Del(inner, u[1].lb), l[1].lb, u[1].ub)
             ELSE inner
           ELSE IF l # None THEN Put(inner, l[1].lb, ub)
           ELSE IF u # None THEN Put(Del(inner, u[1].lb), lb, u[1].ub)
           ELSE Put(inner, lb, ub)]

(* ------------------------------------------------------------------ *)
(* FastUnifier_: root set, next/prev cycle links, tree parents and     *)
(* the clock-stamped find cache.                                       *)
(* ------------------------------------------------------------------ *)

unifier_default ==
  [root |-> {}, next |-> EmptyMap, prev |-> EmptyMap,
   tree |-> EmptyMap, cache |-> EmptyMap]

unifier_next(u, query) == IF Has(u.next, query) THEN u.next[query] ELSE query

unifier_prev(u, query) == IF Has(u.prev, query) THEN u.prev[query] ELSE query

unifier_link(u, lquery, rquery) ==
  [u EXCEPT !.next = Put(u.next, lquery, rquery),
            !.prev = Put(u.prev, rquery, lquery)]

\* The loop of _find.  Returns [ok, cls, inst, cache]; ok is FALSE for
\* UnifierCheck::_Bot.
RECURSIVE find_loop(_, _, _, _, _, _, _)
find_loop(u, inval, cache, prev_up_clk, prev_cursor, cursor, query) ==
  LET hit   == Has(cache, cursor)
      stale == hit /\ clkinval_contains(inval, cache[cursor].clk)
      cache1 == IF stale THEN Del(cache, cursor) ELSE cache
  IN  IF hit /\ ~stale THEN
        LET up_clk == cache[cursor].clk
            up     == cache[cursor].up
        IN  IF cursor = up
            THEN [ok |-> FALSE, cls |-> 0, inst |-> query, cache |-> cache]
            ELSE IF prev_cursor # cursor
            THEN find_loop(u, inval,
                   Put(cache, prev_cursor,
                       [clk |-> Max2(prev_up_clk, up_clk), up |-> up]),
                   up_clk, cursor, up, query)
            ELSE find_loop(u, inval, cache, prev_up_clk, prev_cursor, up, query)
      ELSE IF Has(u.tree, cursor) THEN
        LET up_clk == u.tree[cursor].clk
            up     == u.tree[cursor].up
        IN  IF cursor = up
            THEN [ok |-> FALSE, cls |-> 0, inst |-> query, cache |-> cache1]
            ELSE find_loop(u, inval, cache1, up_clk, cursor, up, query)
      ELSE [ok |-> TRUE, cls |-> cursor, inst |-> query, cache |-> cache1]

\* _find consulting no invalid set: every cache entry is followed.
unifier_find_any_cache(u, inval, clk, query) ==
  IF query \in u.root
  THEN [ok |-> TRUE, cls |-> query, inst |-> query, cache |-> u.cache]
  ELSE find_loop(u, EmptyMap, u.cache, clk, query, query, query)

unifier_find(u, inval, clk, query) ==
  IF query \in u.root
  THEN [ok |-> TRUE, cls |-> query, inst |-> query, cache |-> u.cache]
  ELSE find_loop(u, inval, u.cache, clk, query, query, query)

\* The walk of _findall_into along next, from cursor until stop is met
\* again.  Returns [ok, buf]; buf is the sequence of instances pushed.  A
\* next chain that never returns to stop makes the source loop forever; the
\* walk reports it as not ok once it is longer than the chain can be.
RECURSIVE findall_walk(_, _, _, _)
findall_walk(u, stop, cursor, buf) ==
  LET buf1 == Append(buf, cursor)
  IN  IF ~Has(u.next, cursor)
      THEN [ok |-> cursor = stop, buf |-> buf1]
      ELSE IF u.next[cursor] = stop THEN [ok |-> TRUE, buf |-> buf1]
      ELSE IF Len(buf1) > Cardinality(DOMAIN u.next)
      THEN [ok |-> FALSE, buf |-> buf1]  \* the walk never meets stop again
      ELSE findall_walk(u, stop, u.next[cursor], buf1)

\* Returns [ok, cls, buf, cache].
unifier_findall(u, inval, clk, query) ==
  LET r == unifier_find(u, inval, clk, query)
  IN  IF ~r.ok THEN [ok |-> FALSE, cls |-> 0, buf |-> <<>>, cache |-> r.cache]
      ELSE LET w == findall_walk(u, r.inst, r.inst, <<>>)
           IN  [ok |-> w.ok, cls |-> r.cls, buf |-> w.buf, cache |-> r.cache]

log_append(log, clk, k, a) == Append(log, [clk |-> clk, k |-> k, a |-> a])

\* A merge that links the larger root to the smaller one but leaves the
\* rest of the two cycles unjoined.
unify_commit_one_link(u, log, clk, oroot, nroot, onext, nprev) ==
  [ok |-> TRUE, ret |-> nroot,
   u |-> [unifier_link(u, oroot, nroot) EXCEPT
            !.root  = (u.root \ {oroot}) \cup {nroot},
            !.tree  = Put(u.tree, oroot, [clk |-> clk, up |-> nroot]),
            !.cache = Put(u.cache, oroot, [clk |-> clk, up |-> nroot])],
   log |-> log_append(log, clk, "Unify",
             [oroot |-> oroot, nroot |-> nroot, onext |-> onext,
              nprev |-> nprev,
              otree |-> IF Has(u.tree, oroot) THEN Some(u.tree[oroot]) ELSE None])]

\* _unify, the merge: link the two cycles, move the root, set the tree
\* parent and the cache entry of the larger root, and log the undo entry.
unify_commit(u, log, clk, oroot, nroot, onext, nprev) ==
  [ok |-> TRUE, ret |-> nroot,
   u |-> [unifier_link(unifier_link(u, oroot, nroot), nprev, onext) EXCEPT
            !.root  = (u.root \ {oroot}) \cup {nroot},
            !.tree  = Put(u.tree, oroot, [clk |-> clk, up |-> nroot]),
            !.cache = Put(u.cache, oroot, [clk |-> clk, up |-> nroot])],
   log |-> log_append(log, clk, "Unify",
             [oroot |-> oroot, nroot |-> nroot, onext |-> onext,
              nprev |-> nprev,
              otree |-> IF Has(u.tree, oroot) THEN Some(u.tree[oroot]) ELSE None])]

\* _unify, from the two roots l_root.cls and r_root.cls on.
unify_roots(u, log, clk, lcls, rcls) ==
  IF lcls = rcls
  THEN [ok |-> TRUE, ret |-> rcls, u |-> u, log |-> log]
  ELSE unify_commit(u, log, clk, Max2(lcls, rcls), Min2(lcls, rcls),
                    unifier_next(u, Max2(lcls, rcls)),
                    unifier_prev(u, Min2(lcls, rcls)))

\* _unify, after the find of rquery (rf) has returned.
unify_rfound(u, log, clk, lcls, rf) ==
  IF ~rf.ok
  THEN [ok |-> FALSE, ret |-> 0, u |-> [u EXCEPT !.cache = rf.cache], log |-> log]
  ELSE unify_roots([u EXCEPT !.cache = rf.cache], log, clk, lcls, rf.cls)

\* _unify, after the find of lquery (lf) has returned.
unify_lfound(u, log, inval, clk, lf, rquery) ==
  IF ~lf.ok
  THEN [ok |-> FALSE, ret |-> 0, u |-> [u EXCEPT !.cache = lf.cache], log |-> log]
  ELSE unify_rfound([u EXCEPT !.cache = lf.cache], log, clk, lf.cls,
                    unifier_find([u EXCEPT !.cache = lf.cache], inval, clk, rquery))

\* _unify with lquery = rquery: the class of the query.
unify_same(u, log, rf) ==
  [ok |-> rf.ok, ret |-> rf.cls, u |-> [u EXCEPT !.cache = rf.cache], log |-> log]

\* _unify on the unifier u and the log.  Returns [ok, ret, u, log].
unifier_unify(u, log, inval, clk, lquery, rquery) ==
  IF lquery = rquery
  THEN unify_same(u, log, unifier_find(u, inval, clk, rquery))
  ELSE unify_lfound(u, log, inval, clk,
                    unifier_find(u, inval, clk, Min2(lquery, rquery)),
                    Max2(lquery, rquery))

(* ------------------------------------------------------------------ *)
(* FastInterp: the interpreter state.                                  *)
(* ------------------------------------------------------------------ *)

ResEmp == [k |-> "Emp", x |-> 0, m |-> FALSE]

ResKey(x) == [k |-> "Key", x |-> x, m |-> FALSE]

ResMat(b) == [k |-> "Mat", x |-> 0, m |-> b]

reg_default == [xlb |-> 0, rst_clk |-> 0, tctx |-> "Unify"]

trace_default == [buf |-> <<>>, clk_pos |-> EmptyMap]

interp_default ==
  [clkctr |-> 0, ctr |-> 0,
   table_term |-> EmptyMap, table_val |-> EmptyMap,
   raw_span_index |-> EmptyMap,
   raw_id_index |-> EmptyMap, raw_lit_index |-> EmptyMap,
   fun_name |-> EmptyMap, fun_full |-> EmptyMap,
   obj_cls_name |-> EmptyMap, obj_cls_full |-> EmptyMap,
   raw_id_bind |-> EmptyMap, lit_term_bind |-> EmptyMap,
   lit_val_bind |-> EmptyMap,
   unifier |-> unifier_default,
   reg |-> reg_default, exc_ |-> None, res_ |-> ResEmp,
   port |-> "Quiescent", knt_ |-> <<>>,
   log |-> <<>>, trace |-> trace_default, clkinval |-> EmptyMap]

find_result(I, r) ==
  [ok |-> r.ok, cls |-> r.cls, inst |-> r.inst,
   I |-> [I EXCEPT !.unifier.cache = r.cache]]

\* FastInterp::find.  Returns [ok, cls, inst, I]; the find cache is interior
\* state, so the interpreter is returned with it.
find(I, clk, query) ==
  find_result(I, unifier_find(I.unifier, I.clkinval, clk, query))

unify_result(I, r) ==
  [ok |-> r.ok, ret |-> r.ret, I |-> [I EXCEPT !.unifier = r.u, !.log = r.log]]

\* FastInterp::unify.  Returns [ok, ret, I].
unify(I, clk, lquery, rquery) ==
  unify_result(I, unifier_unify(I.unifier, I.log, I.clkinval, clk, lquery, rquery))

\* An undo of a Unify entry that moves the root back and restores the tree
\* parent but leaves the two cycles joined.
undo_unify_keep_links(u, s) ==
  [u EXCEPT
     !.root = (u.root \ {s.nroot}) \cup {s.oroot},
     !.tree = IF s.otree # None
              THEN Put(u.tree, s.oroot, s.otree[1])
              ELSE Del(u.tree, s.oroot)]

\* _undo of a Unify entry with state s: relink the two cycles, move the
\* root back and restore the tree parent.  The cache is left as it is.
undo_unify(u, s) ==
  [unifier_link(unifier_link(u, s.oroot, s.onext), s.nprev, s.nroot) EXCEPT
     !.root = (u.root \ {s.nroot}) \cup {s.oroot},
     !.tree = IF s.otree # None
              THEN Put(u.tree, s.oroot, s.otree[1])
              ELSE Del(u.tree, s.oroot)]

\* FastInterp::_undo of one log entry.  Returns [ok, I].
undo_(I, clk, e) ==
  IF e.k = "Unify" THEN
    [ok |-> TRUE, I |-> [I EXCEPT !.unifier = undo_unify(I.unifier, e.a)]]
  ELSE IF e.k = "BindIdent" THEN
    [ok |-> TRUE,
     I |-> [I EXCEPT !.raw_id_bind =
              IF e.a.prev_x = 0 THEN Del(I.raw_id_bind, e.a.id)
              ELSE Put(I.raw_id_bind, e.a.id, e.a.prev_x)]]
  ELSE IF e.k = "PutTerm" THEN
    IF Has(I.table_term, e.a.x)
    THEN [ok |-> TRUE, I |-> [I EXCEPT !.table_term = Del(I.table_term, e.a.x)]]
    ELSE [ok |-> FALSE, I |-> I]
  ELSE IF e.k = "PutVal" THEN
    IF Has(I.table_val, e.a.x)
    THEN [ok |-> TRUE, I |-> [I EXCEPT !.table_val = Del(I.table_val, e.a.x)]]
    ELSE [ok |-> FALSE, I |-> I]
  ELSE [ok |-> FALSE, I |-> I]

undo_log_pop(r, log) ==
  IF r.ok THEN [ok |-> TRUE, I |-> [r.I EXCEPT !.log = SubSeq(log, 1, Len(log) - 1)]]
  ELSE r

RECURSIVE undo_log_above(_, _)
undo_log_above_next(r, rst_clk) ==
  IF r.ok THEN undo_log_above(r.I, rst_clk) ELSE r

\* The undo loop stopping at the first entry from the tail whose clock is
\* at most rst_clk.
undo_log_above(I, rst_clk) ==
  IF I.log = <<>> THEN [ok |-> TRUE, I |-> I]
  ELSE IF I.log[Len(I.log)].clk <= rst_clk THEN [ok |-> TRUE, I |-> I]
  ELSE undo_log_above_next(
         undo_log_pop(undo_(I, I.log[Len(I.log)].clk, I.log[Len(I.log)]), I.log),
         rst_clk)

RECURSIVE undo_log(_, _)
undo_log_next(r, rst_clk) == IF r.ok THEN undo_log(r.I, rst_clk) ELSE r

\* The inner loop of interp_'s Fail arm: from the tail of the log, undo and
\* pop every entry whose clock is at least rst_clk; an entry _undo rejects
\* ends the loop with the entry still in the log.  Returns [ok, I].
undo_log(I, rst_clk) ==
  IF I.log = <<>> THEN [ok |-> TRUE, I |-> I]
  ELSE IF I.log[Len(I.log)].clk < rst_clk THEN [ok |-> TRUE, I |-> I]
  ELSE undo_log_next(
         undo_log_pop(undo_(I, I.log[Len(I.log)].clk, I.log[Len(I.log)]), I.log),
         rst_clk)

(* ------------------------------------------------------------------ *)
(* Source modules, as the parser hands them to the loader (RawMod_,    *)
(* RawStm_, RawTerm_).  Every node carries its span; an integer        *)
(* literal carries the value its digits denote.                        *)
(* ------------------------------------------------------------------ *)

TIdent(sp, id) == [k |-> "Ident", span |-> sp, id |-> id]

TInt(sp, v) == [k |-> "IntLit", span |-> sp, lit |-> v]

TEqual(sp, l, r) == [k |-> "Equal", span |-> sp, lterm |-> l, rterm |-> r]

TApply(sp, tup) == [k |-> "Apply", span |-> sp, tup |-> tup]

TListLit(sp, tup) == [k |-> "ListCon", span |-> sp, tup |-> tup]

TApplyBindL(sp, l, tup) ==
  [k |-> "ApplyBindL", span |-> sp, lterm |-> l, tup |-> tup]

TApplyBindR(sp, tup, r) ==
  [k |-> "ApplyBindR", span |-> sp, tup |-> tup, rterm |-> r]

SJust(sp, t) == [k |-> "Just", span |-> sp, term |-> t]

SPass(sp) == [k |-> "Pass", span |-> sp]

SIf(sp, cases, final) == [k |-> "If", span |-> sp, cases |-> cases, final |-> final]

SDefproc(sp, body) == [k |-> "Defproc", span |-> sp, body |-> body]

SDefmatch(sp, body) == [k |-> "Defmatch", span |-> sp, body |-> body]

Case(cond, body) == [cond |-> cond, body |-> body]

\* f(n) as a statement, f() when n < 0; spans sp .. sp + 3.
SCall(sp, f, n) ==
  SJust(sp, TApply(sp + 1,
    IF n < 0 THEN <<TIdent(sp + 2, f)>>
    ELSE <<TIdent(sp + 2, f), TInt(sp + 3, n)>>))

\* l = r as a statement; spans sp .. sp + 3.
SUnify(sp, l, r) == SJust(sp, TEqual(sp + 1, l, r))

Programs ==
  << \* 1: pass; x
     <<SPass(10), SJust(20, TIdent(21, "x"))>>,
     \* 2: defproc p: pass;  x = 1
     <<SDefproc(10, <<SPass(11)>>),
       SUnify(20, TIdent(22, "x"), TInt(23, 1))>>,
     \* 3: defmatch m: pass;  x
     <<SDefmatch(10, <<SPass(11)>>), SJust(20, TIdent(21, "x"))>>,
     \* 4: x = 2; if x == 1: print(x)
     <<SUnify(10, TIdent(12, "x"), TInt(13, 2)),
       SIf(20, <<Case(TEqual(21, TIdent(22, "x"), TInt(23, 1)),
                      <<SJust(30, TApply(31, <<TIdent(32, "print"),
                                               TIdent(33, "x")>>))>>)>>,
           <<>>)>>,
     \* 5: choice(3); failure()
     <<SCall(10, "choice", 3), SCall(20, "failure", -1)>>,
     \* 6: choice(1); choice(2); failure()
     <<SCall(10, "choice", 1), SCall(20, "choice", 2), SCall(30, "failure", -1)>>,
     \* 7: choice(0)
     <<SCall(10, "choice", 0)>>,
     \* 8: choice(1); choice(0)
     <<SCall(10, "choice", 1), SCall(20, "choice", 0)>>,
     \* 9: failure()
     <<SCall(10, "failure", -1)>>,
     \* 10: x = 1; if x == 1: y = 1 elif x == 2: z = 2 else: w = 1
     <<SUnify(10, TIdent(12, "x"), TInt(13, 1)),
       SIf(20, <<Case(TEqual(21, TIdent(22, "x"), TInt(23, 1)),
                      <<SUnify(30, TIdent(32, "y"), TInt(33, 1))>>),
                 Case(TEqual(41, TIdent(42, "x"), TInt(43, 2)),
                      <<SUnify(50, TIdent(52, "z"), TInt(53, 2))>>)>>,
           <<SUnify(60, TIdent(62, "w"), TInt(63, 1))>>)>>,
     \* 11: x; y = z; choice(1); choice(2); x = y; failure()
     <<SJust(10, TIdent(11, "x")),
       SUnify(20, TIdent(22, "y"), TIdent(23, "z")),
       SCall(30, "choice", 1), SCall(40, "choice", 2),
       SUnify(50, TIdent(52, "x"), TIdent(53, "y")),
       SCall(60, "failure", -1)>>,
     \* 12: choice(1); choice(2); x = y; if failure(): x = y
     <<SCall(10, "choice", 1), SCall(20, "choice", 2),
       SUnify(30, TIdent(32, "x"), TIdent(33, "y")),
       SIf(40, <<Case(TApply(41, <<TIdent(42, "failure")>>),
                      <<SUnify(50, TIdent(52, "x"), TIdent(53, "y"))>>)>>,
           <<>>)>>,
     \* 13: failure(1)
     <<SCall(10, "failure", 1)>>,
     \* 14: choice(1); choice(2); w; []; failure()
     <<SCall(10, "choice", 1), SCall(20, "choice", 2),
       SJust(30, TIdent(31, "w")), SJust(40, TListLit(41, <<>>)),
       SCall(50, "failure", -1)>>,
     \* 15: x = 1; eval()
     <<SUnify(10, TIdent(12, "x"), TInt(13, 1)), SCall(20, "eval", -1)>>,
     \* 16: choice()
     <<SCall(10, "choice", -1)>>,
     \* 17: x := f(1)
     <<SJust(10, TApplyBindL(11, TIdent(12, "x"),
                             <<TIdent(13, "f"), TInt(14, 1)>>))>>,
     \* 18: f(1) =: x; x
     <<SJust(10, TApplyBindR(11, <<TIdent(12, "f"), TInt(13, 1)>>,
                             TIdent(14, "x"))),
       SJust(20, TIdent(21, "x"))>>,
     \* 19: x; if y: pass
     <<SJust(10, TIdent(11, "x")),
       SIf(20, <<Case(TIdent(21, "y"), <<SPass(30)>>)>>, <<>>)>>,
     \* 20: if x == 1: (if y: pass)
     <<SIf(10, <<Case(TEqual(11, TIdent(12, "x"), TInt(13, 1)),
                      <<SIf(20, <<Case(TIdent(21, "y"), <<SPass(30)>>)>>,
                            <<>>)>>)>>,
           <<>>)>>
  >>

(* ------------------------------------------------------------------ *)
(* The loader.  Code, cell, span, ident and literal-string tables are  *)
(* write-once at load time; the model keeps the handle each node       *)
(* consumes and the log entry it appends, and lets the evaluator hold  *)
(* the node itself where the source holds its code handle.             *)
(* ------------------------------------------------------------------ *)

\* _fresh twinned with the log entry of the loading function.
ld_new(I, k) ==
  [I EXCEPT !.ctr = @ + 1,
            !.log = log_append(@, I.clkctr, k, [x |-> I.ctr + 1])]

ld_span(I, sp) ==
  IF Has(I.raw_span_index, sp) THEN I
  ELSE [ld_new(I, "LoadRawSpan") EXCEPT
          !.raw_span_index = Put(@, sp, I.ctr + 1)]

\* _load_raw_ident minting a handle whether or not the raw ident is known.
ld_ident_always(I, id) ==
  [ld_new(I, "LoadRawIdent") EXCEPT
     !.raw_id_index = Put(@, id, I.ctr + 1)]

ld_ident(I, id) ==
  IF Has(I.raw_id_index, id) THEN I
  ELSE [ld_new(I, "LoadRawIdent") EXCEPT
          !.raw_id_index = Put(@, id, I.ctr + 1)]

ld_lit_str(I, lit) ==
  IF Has(I.raw_lit_index, lit) THEN I
  ELSE [ld_new(I, "LoadRawLitStr") EXCEPT
          !.raw_lit_index = Put(@, lit, I.ctr + 1)]

\* _alloc_cell, then _link_cells to the previous cell lcel (0 is nil).
ld_cell(I, lcel) ==
  IF lcel = 0 THEN ld_new(I, "AllocCell")
  ELSE [ld_new(I, "AllocCell") EXCEPT
          !.log = log_append(@, I.clkctr, "LinkCells",
                             [lcel |-> lcel, rcel |-> I.ctr + 1])]

\* The loading functions return Result: [ok, I], threaded as `?` threads it.
ld_ok(I) == [ok |-> TRUE, I |-> I]

ld_err(I) == [ok |-> FALSE, I |-> I]

RECURSIVE ld_term(_, _), ld_tup(_, _, _, _), ld_stm(_, _), ld_body(_, _, _, _),
          ld_cases(_, _, _)

\* The cell of tuple term i, allocated once the term is loaded and linked
\* behind the cell before it (cur).
ld_tup_cell(r, tup, i, cur) ==
  IF ~r.ok THEN r
  ELSE ld_tup(ld_ok(ld_cell(r.I, cur)), tup, i + 1, r.I.ctr + 1)

ld_body_cell(r, body, i, cur) ==
  IF ~r.ok THEN r
  ELSE ld_body(ld_ok(ld_cell(r.I, cur)), body, i + 1, r.I.ctr + 1)

\* _load_raw_term.
ld_term(r, t) ==
  IF ~r.ok THEN r
  ELSE IF t.k = "Ident"
  THEN ld_ok(ld_ident(ld_span(ld_new(r.I, "LoadRawTerm"), t.span), t.id))
  ELSE IF t.k = "IntLit"
  THEN ld_ok(ld_lit_str(ld_span(ld_new(r.I, "LoadRawTerm"), t.span), t.lit))
  ELSE IF t.k = "Equal"
  THEN ld_term(ld_term(ld_ok(ld_span(ld_new(r.I, "LoadRawTerm"), t.span)),
                       t.lterm),
               t.rterm)
  ELSE IF t.k \in {"Apply", "ListCon"}
  THEN ld_tup(ld_ok(ld_span(ld_new(r.I, "LoadRawTerm"), t.span)), t.tup, 1, 0)
  ELSE IF t.k = "ApplyBindL"
  THEN ld_tup(ld_term(ld_ok(ld_span(ld_new(r.I, "LoadRawTerm"), t.span)),
                      t.lterm),
              t.tup, 1, 0)
  ELSE IF t.k = "ApplyBindR"
  THEN ld_term(ld_tup(ld_ok(ld_span(ld_new(r.I, "LoadRawTerm"), t.span)),
                      t.tup, 1, 0),
               t.rterm)
  ELSE ld_err(ld_new(r.I, "LoadRawTerm"))

\* The cells of a tuple.
ld_tup(r, tup, i, cur) ==
  IF ~r.ok THEN r
  ELSE IF i > Len(tup) THEN r
  ELSE ld_tup_cell(ld_term(r, tup[i]), tup, i, cur)

\* _load_raw_stm.
ld_stm(r, s) ==
  IF ~r.ok THEN r
  ELSE IF s.k = "Just"
  THEN ld_term(ld_ok(ld_span(ld_new(r.I, "LoadRawStm"), s.span)), s.term)
  ELSE IF s.k = "If"
  THEN ld_body(ld_cases(ld_ok(ld_span(ld_new(r.I, "LoadRawStm"), s.span)),
                        s.cases, 1),
               s.final, 1, 0)
  ELSE IF s.k \in {"Defproc", "Defmatch"}
  THEN ld_body(ld_ok(ld_span(ld_new(r.I, "LoadRawStm"), s.span)), s.body, 1, 0)
  ELSE IF s.k \in {"Pass", "Quote"}
  THEN ld_ok(ld_span(ld_new(r.I, "LoadRawStm"), s.span))
  ELSE ld_err(ld_new(r.I, "LoadRawStm"))

\* The cells of a statement sequence.
ld_body(r, body, i, cur) ==
  IF ~r.ok THEN r
  ELSE IF i > Len(body) THEN r
  ELSE ld_body_cell(ld_stm(r, body[i]), body, i, cur)

\* The cases of an If: the condition, then the cells of the body.
ld_cases(r, cases, i) ==
  IF ~r.ok THEN r
  ELSE IF i > Len(cases) THEN r
  ELSE ld_cases(ld_body(ld_term(r, cases[i].cond), cases[i].body, 1, 0),
                cases, i + 1)

\* _load_raw_mod.
ld_mod(I, mod) ==
  ld_body(ld_ok(ld_span(ld_new(I, "LoadRawMod"), 0)), mod, 1, 0)

\* _load_function: the function object is held by name; blk is TRUE while
\* the object is borrowed out of the table.
load_function(I, fun) ==
  [ld_new(I, "LoadFunction") EXCEPT
     !.fun_full = Put(@, I.ctr + 1, [fun |-> fun, blk |-> FALSE])]

load_obj_cls(I, cls) ==
  [ld_new(I, "LoadObjectCls") EXCEPT
     !.obj_cls_full = Put(@, I.ctr + 1, [cls |-> cls, blk |-> FALSE])]

\* _register_builtin_function, after the ident and the function are loaded
\* (the function is the newest handle).
register_fun_bind(I, clk, raw_id) ==
  unify([I EXCEPT !.fun_name = Put(@, I.raw_id_index[raw_id], I.ctr)],
        clk, I.raw_id_index[raw_id], I.ctr).I

register_builtin_function(I, raw_id, fun) ==
  register_fun_bind(load_function(ld_ident(I, raw_id), fun), I.clkctr, raw_id)

register_cls_bind(I, clk, raw_id) ==
  unify([I EXCEPT !.obj_cls_name = Put(@, I.raw_id_index[raw_id], I.ctr)],
        clk, I.raw_id_index[raw_id], I.ctr).I

register_builtin_obj_cls(I, raw_id, cls) ==
  register_cls_bind(load_obj_cls(ld_ident(I, raw_id), cls), I.clkctr, raw_id)

\* FastInterp::pre_init.
pre_init(I) ==
  register_builtin_obj_cls(
    register_builtin_function(
      register_builtin_function(
        register_builtin_function(
          register_builtin_function(I, "choice", "ChoiceFun"),
          "failure", "FailureFun"),
        "eval", "EvalFun"),
      "print", "PrintFun"),
    "TokenTrie", "TokenTrieCls")

Frame(clk, k, code, st) == [clk |-> clk, k |-> k, code |-> code, st |-> st]

load_loaded(r, mod) ==
  IF ~r.ok THEN r.I
  ELSE [r.I EXCEPT
          !.knt_ = <<Frame(r.I.clkctr, "InterpMod", mod, [stmp |-> <<>>])>>,
          !.port = "Enter"]

\* FastInterp::load_ of an already parsed module.
load_(I, mod) == load_loaded(ld_mod(I, mod), mod)

(* ------------------------------------------------------------------ *)
(* The evaluator.  One iteration of resume_'s loop yields an outcome   *)
(* [I, r, note]: the interpreter after it, and r = "Cont" when the     *)
(* loop goes on, the name of the Yield_ when resume_ returns one,      *)
(* "Err" for Err(InterpCheck) and "Panic" for a panic.  note tells     *)
(* what a choice call did.  The continuation knt_ is the sequence of   *)
(* its frames, head first; knt.prev is its tail.                       *)
(* ------------------------------------------------------------------ *)

NoNote ==
  [k |-> "none", out |-> "none", xctr |-> 0, xlim |-> 0, v |-> 0,
   root_clk |-> 0, pushed |-> FALSE]

Out(I) == [I |-> I, r |-> "Cont", note |-> NoNote]

Yield(I, y) == [I |-> I, r |-> y, note |-> NoNote]

Err(I) == Yield(I, "Err")

\* n calls of _fresh.
bump(I, n) == [I EXCEPT !.ctr = @ + n]

put_term(I, clk, x, term) ==
  [I EXCEPT !.table_term = Put(@, x, term),
            !.log = log_append(@, clk, "PutTerm", [x |-> x])]

put_val(I, clk, x, val) ==
  [I EXCEPT !.table_val = Put(@, x, val),
            !.log = log_append(@, clk, "PutVal", [x |-> x])]

IdentTerm(raw) == [k |-> "IdentTerm", raw |-> raw]

LitTermInt(v) == [k |-> "LitTerm", v |-> v]

TupleTerm(buf) == [k |-> "TupleTerm", buf |-> buf]

LitValInt(v) == [k |-> "Int", v |-> v]

\* put_res on an outcome: the register is replaced before its former
\* content is looked at.
put_res(o, x) ==
  IF o.r # "Cont" THEN o
  ELSE [o EXCEPT !.I.res_ = ResKey(x),
                 !.r = IF o.I.res_.k = "Emp" THEN "Cont"
                       ELSE IF o.I.res_.k = "Key" THEN "Err"
                       ELSE "Panic"]

\* What get_res returns from the register reg, and how it ends.
get_res_r(reg) ==
  IF reg.k = "Key" THEN "Cont" ELSE IF reg.k = "Emp" THEN "Err" ELSE "Panic"

\* self.knt_ = K; self.port = Return.
set_ret(o, K) ==
  IF o.r # "Cont" THEN o
  ELSE [o EXCEPT !.I.knt_ = K, !.I.port = "Return"]

\* A new frame pushed on the continuation K.
push(I, clk, k, code, st, K) ==
  Out([I EXCEPT !.knt_ = <<Frame(clk, k, code, st)>> \o K])

\* knt with its head's micro-state replaced.
with_st(K, st) == <<[K[1] EXCEPT !.st = st]>> \o Tail(K)

enter_mod(I, clk, K) ==
  IF K[1].code = <<>>
  THEN Yield([I EXCEPT !.knt_ = <<>>, !.port = "Quiescent"], "Quiescent")
  ELSE push(I, clk, "InterpStmp", K[1].code, [stmp |-> K[1].code],
            with_st(K, [stmp |-> K[1].code]))

return_mod(I, clk, K) ==
  Yield([I EXCEPT !.knt_ = <<>>, !.port = "Quiescent"], "Quiescent")

enter_stmp(I, clk, K) ==
  IF K[1].st.stmp = <<>>
  THEN Out([I EXCEPT !.knt_ = Tail(K), !.port = "Return"])
  ELSE push(I, clk, "InterpStm", Head(K[1].st.stmp), <<>>,
            with_st(K, [stmp |-> Tail(K[1].st.stmp)]))

return_stmp(I, clk, K) == Out([I EXCEPT !.knt_ = K, !.port = "Enter"])

IfState(c, idx, save_tctx) == [c |-> c, idx |-> idx, save_tctx |-> save_tctx]

enter_stm(I, clk, K) ==
  IF K[1].code.k = "Just"
  THEN push([I EXCEPT !.res_ = ResEmp], clk, "InterpTerm", K[1].code.term,
            <<>>, Tail(K))
  ELSE IF K[1].code.k \in {"Quote", "Pass", "Defproc", "Defmatch"}
  THEN Out([I EXCEPT !.port = "Return"])
  ELSE IF K[1].code.k = "If"
  THEN push(I, clk, "InterpIfStm", K[1].code, IfState("Cond", 1, None),
            Tail(K))
  ELSE Err(I)

return_stm(I, clk, K) == Out([I EXCEPT !.knt_ = Tail(K)])

enter_if_stm(I, clk, K) ==
  IF K[1].st.c = "Cond" THEN
    IF K[1].st.save_tctx # None
    THEN Err([I EXCEPT !.reg.tctx = "Match"])
    ELSE push([I EXCEPT !.reg.tctx = "Match"], clk, "InterpTerm",
              K[1].code.cases[K[1].st.idx].cond, <<>>,
              with_st(K, [K[1].st EXCEPT !.save_tctx = Some(I.reg.tctx)]))
  ELSE IF K[1].st.c = "Body" THEN
    IF K[1].st.save_tctx = None THEN Err(I)
    ELSE push([I EXCEPT !.reg.tctx = K[1].st.save_tctx[1]], clk, "InterpStmp",
              K[1].code.cases[K[1].st.idx].body,
              [stmp |-> K[1].code.cases[K[1].st.idx].body],
              with_st(K, [K[1].st EXCEPT !.save_tctx = None]))
  ELSE IF K[1].st.c = "FinalBody" THEN
    IF K[1].st.save_tctx # None THEN Err(I)
    ELSE push(I, clk, "InterpStmp", K[1].code.final,
              [stmp |-> K[1].code.final], K)
  ELSE Out([I EXCEPT !.knt_ = Tail(K), !.port = "Return"])

\* The cursor that follows the body of case idx.
if_after_body(code, st) ==
  IF st.idx = Len(code.cases)
  THEN [st EXCEPT !.c = IF code.final = <<>> THEN "Fin" ELSE "FinalBody"]
  ELSE [st EXCEPT !.c = "Cond", !.idx = st.idx + 1]

return_if_stm(I, clk, K) ==
  IF K[1].st.c = "Cond"
  THEN Out([I EXCEPT !.knt_ = with_st(K, [K[1].st EXCEPT !.c = "Body"]),
                     !.port = "Enter"])
  ELSE IF K[1].st.c = "Body" THEN
    IF K[1].st.idx > Len(K[1].code.cases) THEN Err(I)
    ELSE Out([I EXCEPT !.knt_ = with_st(K, if_after_body(K[1].code, K[1].st)),
                       !.port = "Enter"])
  ELSE IF K[1].st.c = "FinalBody"
  THEN Out([I EXCEPT !.knt_ = with_st(K, [K[1].st EXCEPT !.c = "Fin"]),
                     !.port = "Enter"])
  ELSE Err(I)

\* An ident binding made without its undo entry.
bind_ident_unlogged(I, clk, id, x) ==
  [I EXCEPT !.raw_id_bind = Put(@, id, x)]

bind_ident(I, clk, id, x) ==
  [I EXCEPT !.raw_id_bind = Put(@, id, x),
            !.log = log_append(@, clk, "BindIdent", [id |-> id, prev_x |-> 0])]

bind_lit_str(I, clk, v, x) ==
  [I EXCEPT !.lit_term_bind = Put(@, v, x),
            !.log = log_append(@, clk, "BindLitStr", [lit |-> v, prev_x |-> 0])]

bind_lit_val(I, clk, v, y) ==
  [I EXCEPT !.lit_val_bind = Put(@, v, y),
            !.log = log_append(@, clk, "BindLitVal", [val |-> v, prev_y |-> 0])]

\* The outcome of a unify whose result handle is dropped.
unify_out(u, note) ==
  [I |-> u.I, r |-> IF u.ok THEN "Cont" ELSE "Err", note |-> note]

\* Enter InterpTerm, Ident.
enter_ident(I, clk, K, id) ==
  IF Has(I.raw_id_bind, id)
  THEN set_ret(put_res(Out(I), I.raw_id_bind[id]), Tail(K))
  ELSE set_ret(
         put_res(
           Out(bind_ident(put_term(bump(I, 1), clk, I.ctr + 1, IdentTerm(id)),
                          clk, id, I.ctr + 1)),
           I.ctr + 1),
         Tail(K))

\* Enter InterpTerm, IntLit, for a literal met for the first time: after the
\* term x and value y are tabled and unified (u), bind the literal to x.
int_lit_bound(u, clk, v, x) ==
  IF ~u.ok THEN Err(u.I)
  ELSE put_res(Out(bind_lit_str(u.I, clk, v, x)), x)

\* Enter InterpTerm, IntLit.
enter_int_lit(I, clk, K, v) ==
  IF Has(I.lit_term_bind, v)
  THEN set_ret(put_res(Out(I), I.lit_term_bind[v]), Tail(K))
  ELSE set_ret(
         int_lit_bound(
           unify(put_val(put_term(bump(I, 2), clk, I.ctr + 1, LitTermInt(v)),
                         clk, I.ctr + 2, LitValInt(v)),
                 clk, I.ctr + 1, I.ctr + 2),
           clk, v, I.ctr + 1),
         Tail(K))

LitValList == [k |-> "List", buf |-> <<>>]

\* Enter InterpTerm, ListCon: the list object goes into the value table
\* directly, with no log entry.
enter_list_con(I, clk, K) ==
  set_ret(put_res(Out([bump(I, 1) EXCEPT
                         !.table_val = Put(@, I.ctr + 1, LitValList)]),
                  I.ctr + 1),
          Tail(K))

enter_term(I, clk, K) ==
  IF K[1].code.k = "Ident" THEN enter_ident(I, clk, K, K[1].code.id)
  ELSE IF K[1].code.k = "IntLit" THEN enter_int_lit(I, clk, K, K[1].code.lit)
  ELSE IF K[1].code.k = "Equal"
  THEN push(I, clk, "InterpEqualTerm", K[1].code,
            [cur |-> "LTerm", lterm |-> 0, rterm |-> 0], Tail(K))
  ELSE IF K[1].code.k = "Apply"
  THEN push(I, clk, "InterpApplyTerm", K[1].code,
            [tup |-> <<>>, cur |-> K[1].code.tup], Tail(K))
  ELSE IF K[1].code.k = "ApplyBindL"
  THEN push(I, clk, "InterpApplyBindLTerm", K[1].code,
            [c |-> "Bind", bind |-> None, tup |-> <<>>, cur |-> K[1].code.tup],
            Tail(K))
  ELSE IF K[1].code.k = "ApplyBindR"
  THEN push(I, clk, "InterpApplyBindRTerm", K[1].code,
            [c |-> "Tup", bind |-> None, tup |-> <<>>, cur |-> K[1].code.tup],
            Tail(K))
  ELSE IF K[1].code.k = "ListCon" THEN enter_list_con(I, clk, K)
  ELSE Err(I)

return_term(I, clk, K) == Out([I EXCEPT !.knt_ = Tail(K)])

\* Equal at Fin in Match context that also unifies the two handles.
equal_match_r_union(lf, rf) ==
  IF ~rf.ok THEN Err(rf.I)
  ELSE Out([unify(rf.I, rf.I.clkctr, lf.inst, rf.inst).I EXCEPT
              !.res_ = ResMat(lf.cls = rf.cls)])

\* Equal at Fin in Match context, after both finds.
equal_match_r(lf, rf) ==
  IF ~rf.ok THEN Err(rf.I)
  ELSE Out([rf.I EXCEPT !.res_ = ResMat(lf.cls = rf.cls)])

equal_match_l(lf, clk, rterm) ==
  IF ~lf.ok THEN Err(lf.I)
  ELSE equal_match_r(lf, find(lf.I, clk, rterm))

enter_equal_term(I, clk, K) ==
  IF K[1].st.cur = "LTerm"
  THEN push(I, clk, "InterpTerm", K[1].code.lterm, <<>>, K)
  ELSE IF K[1].st.cur = "RTerm"
  THEN push(I, clk, "InterpTerm", K[1].code.rterm, <<>>, K)
  ELSE IF I.reg.tctx = "Unify"
  THEN set_ret(unify_out(unify(I, clk, K[1].st.lterm, K[1].st.rterm), NoNote),
               Tail(K))
  ELSE set_ret(equal_match_l(find(I, clk, K[1].st.lterm), clk, K[1].st.rterm),
               Tail(K))

\* self.knt_ = knt with the micro-state st; self.port = Enter.
reenter(I, K, st) == Out([I EXCEPT !.knt_ = with_st(K, st), !.port = "Enter"])

return_equal_term(I, clk, K) ==
  IF K[1].st.cur = "Fin" THEN Err(I)
  ELSE IF get_res_r(I.res_) # "Cont"
  THEN Yield([I EXCEPT !.res_ = ResEmp], get_res_r(I.res_))
  ELSE IF K[1].st.cur = "LTerm"
  THEN reenter([I EXCEPT !.res_ = ResEmp], K,
               [K[1].st EXCEPT !.lterm = I.res_.x, !.cur = "RTerm"])
  ELSE reenter([I EXCEPT !.res_ = ResEmp], K,
               [K[1].st EXCEPT !.rterm = I.res_.x, !.cur = "Fin"])

(* ------------------------------------------------------------------ *)
(* The builtin prelude (src/src/interp/prelude.rs).                    *)
(* ------------------------------------------------------------------ *)

\* u16::max_value(), the limit of a choice without a bound.
RawChoiceRankMax == 65535

\* get_vals: the literal values tabled for the members of the class of
\* query, in cycle order from query.inst.  Returns [ok, vals, I].
get_vals_of(I, query, r) ==
  IF ~r.ok THEN [ok |-> FALSE, vals |-> <<>>, I |-> [I EXCEPT !.unifier.cache = r.cache]]
  ELSE IF r.cls # query.cls
  THEN [ok |-> FALSE, vals |-> <<>>, I |-> [I EXCEPT !.unifier.cache = r.cache]]
  ELSE [ok |-> TRUE,
        vals |-> SelectSeq(r.buf, LAMBDA x : Has(I.table_val, x)),
        I |-> [I EXCEPT !.unifier.cache = r.cache]]

get_vals(I, clk, query) ==
  get_vals_of(I, query, unifier_findall(I.unifier, I.clkinval, clk, query.inst))

\* The bound a choice call reads from its argument: [r, ub, I], ub an
\* Option; r is "Panic" for a value that does not fit u16.
choice_ub_of(g) ==
  IF ~g.ok THEN [r |-> "Err", ub |-> None, I |-> g.I]
  ELSE IF g.vals = <<>> THEN [r |-> "Cont", ub |-> None, I |-> g.I]
  ELSE IF g.I.table_val[g.vals[1]].v \in 0 .. RawChoiceRankMax
  THEN [r |-> "Cont", ub |-> Some(g.I.table_val[g.vals[1]].v), I |-> g.I]
  ELSE [r |-> "Panic", ub |-> None, I |-> g.I]

choice_ub(I, clk, tup) ==
  IF Len(tup) > 1 THEN choice_ub_of(get_vals(I, clk, tup[2]))
  ELSE [r |-> "Cont", ub |-> None, I |-> I]

TraceEntry(clk, xlim, xlb, reg, ctl, knt) ==
  [xctr |-> 0, xlim |-> xlim, last_clk |-> clk, root_clk |-> clk,
   xlb |-> xlb, reg |-> reg, ctl_ |-> ctl, knt_ |-> knt]

trace_maybe_get(trace, clk) == Has(trace.clk_pos, clk)

\* FastTrace_::_push.  Returns [ok, trace].
trace_push(trace, clk, xlim, xlb, reg, ctl, knt) ==
  [ok |-> ~Has(trace.clk_pos, clk),
   trace |-> [buf |-> Append(trace.buf,
                             TraceEntry(clk, xlim, xlb, reg, ctl, knt)),
              clk_pos |-> Put(trace.clk_pos, clk, Len(trace.buf) + 1)]]

\* FastTrace_::_pop_pos.  Returns [ok, trace].
trace_pop_pos(trace, pos) ==
  IF pos # Len(trace.buf) THEN [ok |-> FALSE, trace |-> trace]
  ELSE [ok |-> /\ Has(trace.clk_pos, trace.buf[pos].root_clk)
               /\ trace.clk_pos[trace.buf[pos].root_clk] = pos,
        trace |-> [buf |-> SubSeq(trace.buf, 1, pos - 1),
                   clk_pos |-> Del(trace.clk_pos, trace.buf[pos].root_clk)]]

\* The frame a choice call works on: [ok, I, pos, pushed].
choice_pushed(I, clk, t) ==
  [ok |-> t.ok, I |-> [I EXCEPT !.trace = t.trace],
   pos |-> Len(t.trace.buf), pushed |-> TRUE]

\* A choice call that pushes a frame whatever rst_clk names.
choice_te_push(I, clk, rst_clk, xlb, ub, K) ==
  choice_pushed(I, clk,
    trace_push(I.trace, clk,
               IF ub = None THEN RawChoiceRankMax ELSE ub[1],
               xlb, I.reg,
               [exc_ |-> I.exc_, res_ |-> I.res_, port |-> I.port], K))

choice_te(I, clk, rst_clk, xlb, ub, K) ==
  IF rst_clk # 0 /\ trace_maybe_get(I.trace, rst_clk)
  THEN [ok |-> TRUE,
        I |-> [I EXCEPT !.trace.buf[I.trace.clk_pos[rst_clk]].last_clk = clk],
        pos |-> I.trace.clk_pos[rst_clk], pushed |-> FALSE]
  ELSE IF rst_clk = 0 /\ trace_maybe_get(I.trace, rst_clk)
  THEN [ok |-> FALSE, I |-> I, pos |-> 0, pushed |-> FALSE]
  ELSE choice_pushed(I, clk,
         trace_push(I.trace, clk,
                    IF ub = None THEN RawChoiceRankMax ELSE ub[1],
                    xlb, I.reg,
                    [exc_ |-> I.exc_, res_ |-> I.res_, port |-> I.port], K))

ChoiceNote(out, te, pushed) ==
  [k |-> "choice", out |-> out, xctr |-> te.xctr, xlim |-> te.xlim,
   v |-> te.xctr, root_clk |-> te.root_clk, pushed |-> pushed]

\* The test at which a choice call parts value from failure.
choice_below_inclusive(ub, choice_ctr) == ub = None \/ choice_ctr <= ub[1]

choice_below(ub, choice_ctr) == ub = None \/ choice_ctr < ub[1]

\* The counter written as an integer value and unified with ret.
choice_value(I, clk, choice_ctr, ret, note) ==
  IF Has(I.lit_val_bind, choice_ctr)
  THEN unify_out(unify(I, clk, I.lit_val_bind[choice_ctr], ret), note)
  ELSE unify_out(
         unify(bind_lit_val(put_val(bump(I, 1), clk, I.ctr + 1,
                                    LitValInt(choice_ctr)),
                            clk, choice_ctr, I.ctr + 1),
               clk, I.ctr + 1, ret),
         note)

choice_emit(t, clk, ub, ret) ==
  IF ~t.ok THEN Err(t.I)
  ELSE IF choice_below(ub, t.I.trace.buf[t.pos].xctr)
  THEN choice_value(t.I, clk, t.I.trace.buf[t.pos].xctr, ret,
                    ChoiceNote("value", t.I.trace.buf[t.pos], t.pushed))
  ELSE [I |-> t.I, r |-> "Fail",
        note |-> ChoiceNote("fail", t.I.trace.buf[t.pos], t.pushed)]

choice_with_ub(u, clk, rst_clk, xlb, ret, K) ==
  IF u.r # "Cont" THEN Yield(u.I, u.r)
  ELSE choice_emit(choice_te(u.I, clk, rst_clk, xlb, u.ub, K), clk, u.ub, ret)

\* ChoiceFun::__apply__.
ChoiceFun_apply(I, clk, tup, ret, K) ==
  IF Len(tup) > 2 THEN Err([I EXCEPT !.reg.rst_clk = 0])
  ELSE choice_with_ub(choice_ub([I EXCEPT !.reg.rst_clk = 0], clk, tup),
                      clk, I.reg.rst_clk, I.reg.xlb, ret, K)

\* A failure builtin that yields Fail only when it is given no argument.
FailureFun_apply_no_args(I, clk, tup, ret, K) ==
  IF Len(tup) > 1 THEN Err(I) ELSE Yield(I, "Fail")

\* FailureFun::__apply__.
FailureFun_apply(I, clk, tup, ret, K) == Yield(I, "Fail")

\* EvalFun::__apply__.
EvalFun_apply(I, clk, tup, ret, K) == Err(I)

print_vals(g) == IF g.ok THEN Out(g.I) ELSE Err(g.I)

\* PrintFun::__apply__; what it prints is not part of the state.
PrintFun_apply(I, clk, tup, ret, K) ==
  IF Len(tup) > 2 THEN Err(I)
  ELSE IF Len(tup) > 1 THEN print_vals(get_vals(I, clk, tup[2]))
  ELSE Out(I)

fun_apply(I, fun, clk, tup, ret, K) ==
  IF fun = "ChoiceFun" THEN ChoiceFun_apply(I, clk, tup, ret, K)
  ELSE IF fun = "FailureFun" THEN FailureFun_apply(I, clk, tup, ret, K)
  ELSE IF fun = "EvalFun" THEN EvalFun_apply(I, clk, tup, ret, K)
  ELSE PrintFun_apply(I, clk, tup, ret, K)

(* ------------------------------------------------------------------ *)
(* Apply terms, the dispatch of resume_ and the Fail arm of interp_.   *)
(* ------------------------------------------------------------------ *)

ENum(cls, inst) == [cls |-> cls, inst |-> inst]

\* The finds of the evaluated tuple, left to right.  Returns [ok, I, tup].
RECURSIVE find_tup(_, _, _, _, _)
find_tup_next(f, clk, tup, i, buf) ==
  IF ~f.ok THEN [ok |-> FALSE, I |-> f.I, tup |-> buf]
  ELSE find_tup(f.I, clk, tup, i + 1, Append(buf, ENum(f.cls, f.inst)))

find_tup(I, clk, tup, i, buf) ==
  IF i > Len(tup) THEN [ok |-> TRUE, I |-> I, tup |-> buf]
  ELSE find_tup_next(find(I, clk, tup[i]), clk, tup, i, buf)

borrow_fun(I, f) == [I EXCEPT !.fun_full[f].blk = TRUE]

unborrow_fun(o, f) == [o EXCEPT !.I.fun_full[f].blk = FALSE]

\* After __apply__ returned o: an error leaves the function borrowed; a
\* yield is returned as it is; otherwise the tuple term x is the result.
apply_result(o, K, x, f) ==
  IF o.r \in {"Err", "Panic"} THEN o
  ELSE IF o.r # "Cont" THEN unborrow_fun(o, f)
  ELSE set_ret(put_res(unborrow_fun(o, f), x), Tail(K))

apply_call(ft, clk, K, x, f) ==
  IF ~ft.ok THEN Err(ft.I)
  ELSE apply_result(fun_apply(ft.I, ft.I.fun_full[f].fun, clk, ft.tup, x, K),
                    K, x, f)

apply_fun(I, clk, K, x, f) ==
  IF ~Has(I.fun_full, f) THEN Err(I)
  ELSE IF I.fun_full[f].blk THEN Err(I)
  ELSE apply_call(find_tup(borrow_fun(I, f), clk, K[1].st.tup, 1, <<>>),
                  clk, K, x, f)

\* The head of the tuple names a builtin function.
head_is_fun(I, head) ==
  /\ Has(I.table_term, head)
  /\ I.table_term[head].k = "IdentTerm"
  /\ Has(I.raw_id_index, I.table_term[head].raw)
  /\ Has(I.fun_name, I.raw_id_index[I.table_term[head].raw])

head_fun(I, head) == I.fun_name[I.raw_id_index[I.table_term[head].raw]]

apply_head(I, clk, K, x) ==
  IF K[1].st.tup = <<>> THEN Yield(I, "Panic")
  ELSE IF head_is_fun(I, K[1].st.tup[1])
  THEN apply_fun(I, clk, K, x, head_fun(I, K[1].st.tup[1]))
  ELSE set_ret(put_res(Out(I), x), Tail(K))

enter_apply_term(I, clk, K) ==
  IF K[1].st.cur = <<>>
  THEN apply_head(put_term(bump(I, 1), clk, I.ctr + 1, TupleTerm(K[1].st.tup)),
                  clk, K, I.ctr + 1)
  ELSE push(I, clk, "InterpTerm", Head(K[1].st.cur), <<>>, K)

return_apply_term(I, clk, K) ==
  IF K[1].st.cur = <<>> THEN Err(I)
  ELSE IF get_res_r(I.res_) # "Cont"
  THEN Yield([I EXCEPT !.res_ = ResEmp], get_res_r(I.res_))
  ELSE reenter([I EXCEPT !.res_ = ResEmp], K,
               [tup |-> Append(K[1].st.tup, I.res_.x),
                cur |-> Tail(K[1].st.cur)])

\* The Fin step of an apply-bind that writes the handle of the tuple term
\* to the result register.
apply_bind_unified_tuple(u, K, x, y) ==
  IF ~u.ok THEN Err(u.I)
  ELSE set_ret(put_res(Out(u.I), x), Tail(K))

\* The Fin step of ApplyBindL and ApplyBindR once the tuple term x and the
\* bound handle y are unified (u): y is the result.
apply_bind_unified(u, K, x, y) ==
  IF ~u.ok THEN Err(u.I)
  ELSE set_ret(put_res(Out(u.I), y), Tail(K))

apply_bind_tabled(ft, clk, K, x) ==
  IF ~ft.ok THEN Err(ft.I)
  ELSE IF K[1].st.bind = None
  THEN Err(put_term(ft.I, clk, x, TupleTerm(ft.tup)))
  ELSE apply_bind_unified(
         unify(put_term(ft.I, clk, x, TupleTerm(ft.tup)), clk, x,
               K[1].st.bind[1]),
         K, x, K[1].st.bind[1])

\* Enter InterpApplyBindLTerm / InterpApplyBindRTerm at Fin.
apply_bind_fin(I, clk, K) ==
  apply_bind_tabled(find_tup(bump(I, 1), clk, K[1].st.tup, 1, <<>>),
                    clk, K, I.ctr + 1)

\* Enter at the Tup cursor: the next cell, or on to the cursor after.
apply_bind_enter_tup(I, clk, K, after) ==
  IF K[1].st.cur = <<>>
  THEN Out([I EXCEPT !.knt_ = with_st(K, [K[1].st EXCEPT !.c = after])])
  ELSE push(I, clk, "InterpTerm", Head(K[1].st.cur), <<>>, K)

\* Return at the Tup cursor.
apply_bind_return_tup(I, clk, K, after) ==
  IF K[1].st.cur = <<>>
  THEN reenter(I, K, [K[1].st EXCEPT !.c = after])
  ELSE IF get_res_r(I.res_) # "Cont"
  THEN Yield([I EXCEPT !.res_ = ResEmp], get_res_r(I.res_))
  ELSE reenter([I EXCEPT !.res_ = ResEmp], K,
               [K[1].st EXCEPT !.tup = Append(@, I.res_.x),
                               !.cur = Tail(@)])

\* Return at the Bind cursor.
apply_bind_return_bind(I, clk, K, after) ==
  IF get_res_r(I.res_) # "Cont"
  THEN Yield([I EXCEPT !.res_ = ResEmp], get_res_r(I.res_))
  ELSE reenter([I EXCEPT !.res_ = ResEmp], K,
               [K[1].st EXCEPT !.bind = Some(I.res_.x), !.c = after])

enter_apply_bind_l(I, clk, K) ==
  IF K[1].st.c = "Bind"
  THEN push(I, clk, "InterpTerm", K[1].code.lterm, <<>>, K)
  ELSE IF K[1].st.c = "Tup" THEN apply_bind_enter_tup(I, clk, K, "Fin")
  ELSE apply_bind_fin(I, clk, K)

return_apply_bind_l(I, clk, K) ==
  IF K[1].st.c = "Bind" THEN apply_bind_return_bind(I, clk, K, "Tup")
  ELSE IF K[1].st.c = "Tup" THEN apply_bind_return_tup(I, clk, K, "Fin")
  ELSE Err(I)

enter_apply_bind_r(I, clk, K) ==
  IF K[1].st.c = "Tup" THEN apply_bind_enter_tup(I, clk, K, "Bind")
  ELSE IF K[1].st.c = "Bind"
  THEN push(I, clk, "InterpTerm", K[1].code.rterm, <<>>, K)
  ELSE apply_bind_fin(I, clk, K)

return_apply_bind_r(I, clk, K) ==
  IF K[1].st.c = "Tup" THEN apply_bind_return_tup(I, clk, K, "Bind")
  ELSE IF K[1].st.c = "Bind" THEN apply_bind_return_bind(I, clk, K, "Fin")
  ELSE Err(I)

\* The match on (port, knt.cur) of resume_; I has knt_ taken out as K.
resume_arm(I, clk, K) ==
  IF I.port = "Enter" THEN
    IF K[1].k = "InterpMod" THEN enter_mod(I, clk, K)
    ELSE IF K[1].k = "InterpStmp" THEN enter_stmp(I, clk, K)
    ELSE IF K[1].k = "InterpStm" THEN enter_stm(I, clk, K)
    ELSE IF K[1].k = "InterpIfStm" THEN enter_if_stm(I, clk, K)
    ELSE IF K[1].k = "InterpTerm" THEN enter_term(I, clk, K)
    ELSE IF K[1].k = "InterpEqualTerm" THEN enter_equal_term(I, clk, K)
    ELSE IF K[1].k = "InterpApplyBindLTerm" THEN enter_apply_bind_l(I, clk, K)
    ELSE IF K[1].k = "InterpApplyBindRTerm" THEN enter_apply_bind_r(I, clk, K)
    ELSE enter_apply_term(I, clk, K)
  ELSE IF I.port = "Return" THEN
    IF K[1].k = "InterpMod" THEN return_mod(I, clk, K)
    ELSE IF K[1].k = "InterpStmp" THEN return_stmp(I, clk, K)
    ELSE IF K[1].k = "InterpStm" THEN return_stm(I, clk, K)
    ELSE IF K[1].k = "InterpIfStm" THEN return_if_stm(I, clk, K)
    ELSE IF K[1].k = "InterpTerm" THEN return_term(I, clk, K)
    ELSE IF K[1].k = "InterpEqualTerm" THEN return_equal_term(I, clk, K)
    ELSE IF K[1].k = "InterpApplyBindLTerm" THEN return_apply_bind_l(I, clk, K)
    ELSE IF K[1].k = "InterpApplyBindRTerm" THEN return_apply_bind_r(I, clk, K)
    ELSE return_apply_term(I, clk, K)
  ELSE Err(I)

\* One iteration of the loop of resume_ without the test of the exception
\* register.
resume_unchecked(I) ==
  IF I.knt_ = <<>> THEN Yield([I EXCEPT !.port = "Quiescent"], "Quiescent")
  ELSE resume_arm([I EXCEPT !.knt_ = <<>>, !.clkctr = @ + 1, !.reg.xlb = I.ctr],
                  I.clkctr + 1, I.knt_)

\* One iteration of the loop of resume_.
resume_(I) ==
  IF I.exc_ # None THEN Yield(I, "Raise")
  ELSE IF I.knt_ = <<>> THEN Yield([I EXCEPT !.port = "Quiescent"], "Quiescent")
  ELSE resume_arm([I EXCEPT !.knt_ = <<>>, !.clkctr = @ + 1, !.reg.xlb = I.ctr],
                  I.clkctr + 1, I.knt_)

\* The Fail arm restoring a watermark one below the one frame te saved.
fail_restore_low(I, te) ==
  [I EXCEPT !.ctr = te.xlb - 1, !.reg.rst_clk = te.root_clk,
            !.exc_ = te.ctl_.exc_, !.res_ = te.ctl_.res_,
            !.port = te.ctl_.port, !.knt_ = te.knt_]

\* The Fail arm restoring the registers and the continuation of frame te
\* and resetting the clock to the frame's root clock.
fail_restore_reset_clock(I, te) ==
  [I EXCEPT !.ctr = te.xlb, !.reg.rst_clk = te.root_clk,
            !.clkctr = te.root_clk,
            !.exc_ = te.ctl_.exc_, !.res_ = te.ctl_.res_,
            !.port = te.ctl_.port, !.knt_ = te.knt_]

\* The Fail arm taking the continuation out of frame te instead of cloning
\* it.
fail_restore_take(I, te) ==
  [I EXCEPT !.ctr = te.xlb, !.reg.rst_clk = te.root_clk,
            !.exc_ = te.ctl_.exc_, !.res_ = te.ctl_.res_,
            !.port = te.ctl_.port, !.knt_ = te.knt_,
            !.trace.buf[I.trace.clk_pos[te.root_clk]].knt_ = <<>>]

\* The Fail arm restoring the registers and the continuation of frame te.
fail_restore(I, te) ==
  [I EXCEPT !.ctr = te.xlb, !.reg.rst_clk = te.root_clk,
            !.exc_ = te.ctl_.exc_, !.res_ = te.ctl_.res_,
            !.port = te.ctl_.port, !.knt_ = te.knt_]

RECURSIVE fail_frames(_, _)
fail_popped(I, p, t) ==
  IF ~t.ok THEN [I |-> [I EXCEPT !.trace = t.trace], r |-> "Err", p |-> p]
  ELSE fail_frames([I EXCEPT !.trace = t.trace], p - 1)

fail_restored(I, p) ==
  IF I.trace.buf[p].xctr < I.trace.buf[p].xlim
  THEN [I |-> I, r |-> "Resume", p |-> p]
  ELSE fail_popped(I, p, trace_pop_pos(I.trace, p))

fail_undone(u, p) ==
  IF ~u.ok THEN [I |-> u.I, r |-> "Err", p |-> p]
  ELSE fail_restored(fail_restore(u.I, u.I.trace.buf[p]), p)

\* The Fail arm of interp_, from trace frame p down: [I, r, p] with r
\* "Resume" (continue 'resume at frame p), "Halt" or "Err".
fail_frames(I, p) ==
  IF p = 0 THEN [I |-> I, r |-> "Halt", p |-> 0]
  ELSE fail_undone(
         undo_log([I EXCEPT !.trace.buf[p].xctr = @ + 1],
                  I.trace.buf[p].root_clk),
         p)

(* ------------------------------------------------------------------ *)
(* The unifier driven alone: unify and find calls at non-decreasing    *)
(* clocks, and the log rollback of interp_'s Fail arm.                 *)
(* ------------------------------------------------------------------ *)

Handles == 1 .. NumHandles

NoEvent == [k |-> "none", a |-> 0, b |-> 0, ret |-> 0, ra |-> 0, rb |-> 0]

\* What a caller can observe of the unifier: for every handle its class
\* and the member set findall reports.
ObsU(I) ==
  [q \in Handles |->
     LET r == unifier_findall(I.unifier, I.clkinval, I.clkctr, q)
     IN  [ok |-> r.ok, cls |-> r.cls,
          members |-> {r.buf[i] : i \in 1 .. Len(r.buf)}]]

InitU ==
  /\ interp = interp_default
  /\ run = [mode |-> "unifier", tick |-> FALSE]
  /\ hist = [ev |-> NoEvent, undos |-> 0, snap |-> <<>>, expect |-> <<>>]

UUnifyDone(I0, a, b, ra, rb, r) ==
  /\ r.ok
  /\ interp' = r.I
  /\ run' = [run EXCEPT !.tick = FALSE]
  /\ hist' = [hist EXCEPT
                !.ev = [k |-> "unify", a |-> a, b |-> b, ret |-> r.ret,
                        ra |-> ra, rb |-> rb],
                !.snap = IF Len(r.I.log) > Len(I0.log)
                         THEN Append(@, ObsU(I0)) ELSE @]

UUnifyAt(I0, a, b) ==
  UUnifyDone(I0, a, b, find(I0, I0.clkctr, a).cls, find(I0, I0.clkctr, b).cls,
             unify(I0, I0.clkctr, a, b))

\* A unify(a, b) call, in the current step or (tick) in a fresh one.
UUnify(a, b, tick) ==
  /\ run.tick => tick
  /\ interp.clkctr + (IF tick THEN 1 ELSE 0) <= MaxUClk
  /\ UUnifyAt([interp EXCEPT !.clkctr = @ + (IF tick THEN 1 ELSE 0)], a, b)

UFindDone(q, r) ==
  /\ r.ok
  /\ r.I # interp
  /\ interp' = r.I
  /\ hist' = [hist EXCEPT !.ev = [NoEvent EXCEPT !.k = "find", !.a = q]]
  /\ UNCHANGED run

\* A find(q) call: it may rewrite the cache.
UFind(q) == UFindDone(q, find(interp, interp.clkctr, q))

URollbackDone(rst_clk, r) ==
  /\ r.ok
  /\ interp' = r.I
  /\ hist' = [hist EXCEPT
                !.ev = [NoEvent EXCEPT !.k = "undo", !.a = rst_clk],
                !.undos = 1,
                !.expect = hist.snap[Len(r.I.log) + 1],
                !.snap = SubSeq(@, 1, Len(r.I.log))]
  /\ run' = [run EXCEPT !.tick = TRUE]

\* The rollback of a Fail recovery to a frame whose root clock is rst_clk;
\* the step after it takes a fresh clock.
URollback(rst_clk) ==
  /\ interp.log # <<>>
  /\ interp.log[Len(interp.log)].clk >= rst_clk
  /\ URollbackDone(rst_clk, undo_log(interp, rst_clk))

NextU ==
  \/ \E a \in Handles, b \in Handles, tick \in BOOLEAN : UUnify(a, b, tick)
  \/ \E q \in Handles : UFind(q)
  \/ \E c \in 1 .. MaxUClk : URollback(c)

SpecU == InitU /\ [][NextU]_vars

(* ------------------------------------------------------------------ *)
(* Properties of the unifier (checked under SpecU).                    *)
(* ------------------------------------------------------------------ *)

\* The root reached from q along tree edges alone.
RECURSIVE TreeRoot(_, _)
TreeRoot(u, q) == IF Has(u.tree, q) THEN TreeRoot(u, u.tree[q].up) ELSE q

ClassOf(I, q) == unifier_find(I.unifier, I.clkinval, I.clkctr, q).cls

TreeMembers(u, r) == {q \in Handles : TreeRoot(u, q) = r}

NoRepeat(seq) == \A i, j \in 1 .. Len(seq) : seq[i] = seq[j] => i = j

SeqSet(seq) == {seq[i] : i \in 1 .. Len(seq)}

CycleVisitsClassOnce(I, q) ==
  LET r == unifier_findall(I.unifier, I.clkinval, I.clkctr, q)
  IN  /\ r.ok
      /\ NoRepeat(r.buf)
      /\ SeqSet(r.buf) = TreeMembers(I.unifier, TreeRoot(I.unifier, q))

\* C4: after any sequence of unify calls with no undo, find gives two
\* handles the same class exactly when tree edges connect them, and the next
\* cycle from a class root (and from any member) visits every member of the
\* class exactly once.
C4_UnionFindSound ==
  hist.undos = 0 =>
    /\ \A a, b \in Handles :
         (ClassOf(interp, a) = ClassOf(interp, b))
           <=> (TreeRoot(interp.unifier, a) = TreeRoot(interp.unifier, b))
    /\ \A q \in Handles : CycleVisitsClassOnce(interp, q)

\* A state without undo in which all handles were merged into one class by
\* two logged merges.
C4_Witness ==
  /\ hist.undos = 0
  /\ Len(interp.log) = NumHandles - 1
  /\ \A q \in Handles : ClassOf(interp, q) = 1
  /\ hist.ev.k = "unify"

\* C5: unify(a, b) returns the smaller of the two classes find reported
\* just before the call, afterwards find reports that class for both a and b,
\* and the larger former root is a tree child of the smaller one.
C5_DeterministicRoots ==
  hist.ev.k = "unify" =>
    /\ hist.ev.ret = Min2(hist.ev.ra, hist.ev.rb)
    /\ ClassOf(interp, hist.ev.a) = hist.ev.ret
    /\ ClassOf(interp, hist.ev.b) = hist.ev.ret
    /\ hist.ev.ra # hist.ev.rb =>
         /\ Has(interp.unifier.tree, Max2(hist.ev.ra, hist.ev.rb))
         /\ interp.unifier.tree[Max2(hist.ev.ra, hist.ev.rb)].up
              = Min2(hist.ev.ra, hist.ev.rb)
         /\ ~Has(interp.unifier.tree, Min2(hist.ev.ra, hist.ev.rb))

\* C2: after the Unify entries of a sequence of unify calls were undone in
\* reverse order, find and findall report for every handle what they reported
\* before that sequence.
C2_UndoRoundTrip ==
  hist.ev.k = "undo" => ObsU(interp) = hist.expect

(* ------------------------------------------------------------------ *)
(* The interpreter driven as its harness drives it: construction,      *)
(* pre_init, load_ of one module, then calls of interp_.  run.pc tells *)
(* where a call of interp_ stands: "idle" outside a call, "running"    *)
(* between two iterations of resume_'s loop, "fail" when resume_ has   *)
(* returned Fail and the Fail arm has not run yet, "dead" after a      *)
(* panic.  hist is history only: the note of the last choice call, the *)
(* values choice returned, the observable state at the start of each   *)
(* step that pushed a choice frame, the last recovery, the statements  *)
(* entered and the conditions and bodies of If statements.             *)
(* ------------------------------------------------------------------ *)

\* What Backtrack equivalence compares: ident bindings, term and value
\* tables, the class find reports for every handle, the term-context, the
\* result and exception registers, the port and the continuation.
FindClass(I, q) == [ok |-> find(I, I.clkctr, q).ok, cls |-> find(I, I.clkctr, q).cls]

Obs(I) ==
  [raw_id_bind |-> I.raw_id_bind, table_term |-> I.table_term,
   table_val |-> I.table_val,
   cls |-> [q \in 1 .. I.ctr |-> FindClass(I, q)],
   tctx |-> I.reg.tctx, res_ |-> I.res_, exc_ |-> I.exc_,
   port |-> I.port, knt_ |-> I.knt_]

NoRec == [lb |-> 0, ub |-> 0, p |-> 0, xctr |-> 0, xlb |-> 0, S |-> <<>>]

IfEv(t, span, idx, m, tctx) ==
  [t |-> t, span |-> span, idx |-> idx, m |-> m, tctx |-> tctx]

\* History of the handle allocator: got, the keys the calls of _fresh in
\* the last action returned; ever, the keys returned so far; reuse, whether
\* a call returned a key of ever; live, the keys returned and not handed
\* back by a recovery (a recovery to a frame hands back the keys above
\* marks[root clock], the watermark at the start of the step in which the
\* frame's choice call ran); dup, whether a call returned a key of live.
NoAlloc ==
  [got |-> {}, ever |-> {}, reuse |-> FALSE, live |-> {}, dup |-> FALSE,
   marks |-> EmptyMap]

\* The calls of _fresh that moved the watermark from c0 to c1 returned the
\* keys c0 + 1 .. c1.
alloc_fresh(a, c0, c1) ==
  [a EXCEPT !.got = (c0 + 1) .. c1,
            !.ever = @ \cup ((c0 + 1) .. c1),
            !.reuse = @ \/ ((c0 + 1) .. c1) \cap a.ever # {},
            !.live = @ \cup ((c0 + 1) .. c1),
            !.dup = @ \/ ((c0 + 1) .. c1) \cap a.live # {}]

\* The root clock of the last frame whose watermark the Fail arm restored
\* (0 when it restored none): the frame it resumed, the oldest frame when
\* it popped them all, the frame above the one whose undo failed.
fail_mark_clk(I, f) ==
  IF f.r = "Resume" THEN I.trace.buf[f.p].root_clk
  ELSE IF f.p < Len(I.trace.buf) THEN I.trace.buf[f.p + 1].root_clk
  ELSE 0

alloc_fail(a, c) ==
  [a EXCEPT !.got = {},
            !.live = IF c = 0 THEN @ ELSE {k \in @ : k <= a.marks[c]}]

\* History of the clock: got, the clock the last micro-step obtained (0
\* when it obtained none); max, the largest clock obtained so far; mono,
\* whether every clock obtained was larger than all obtained before it.
NoClk == [got |-> 0, max |-> 0, mono |-> TRUE]

clk_step(c, c0, c1) ==
  IF c1 = c0 THEN [c EXCEPT !.got = 0]
  ELSE [got |-> c1, max |-> Max2(c.max, c1), mono |-> c.mono /\ c1 > c.max]

\* History of failure calls and of the Fail arm: call, whether the last
\* micro-step applied the failure builtin, and to how many arguments;
\* yielded, whether that step yielded Fail; frames, the number of choice
\* frames the last run of the Fail arm started with; kept, whether that run
\* left the log as it was.
NoFail ==
  [call |-> FALSE, args |-> 0, yielded |-> FALSE, frames |-> 0, kept |-> TRUE]

Init ==
  /\ interp = interp_default
  /\ run = [pc |-> "idle", phase |-> "new", prog |-> 0, calls |-> 0,
            ret |-> "None"]
  /\ hist = [ev |-> "new", note |-> NoNote, vals |-> <<>>, snap |-> EmptyMap,
             rec |-> NoRec, entered |-> {}, ifs |-> <<>>, noop |-> TRUE,
             alloc |-> NoAlloc, clk |-> NoClk, fail |-> NoFail,
             halted |-> FALSE]

PreInitDone(I2) ==
  /\ interp' = I2
  /\ run' = [run EXCEPT !.phase = "init"]
  /\ hist' = [hist EXCEPT !.ev = "pre_init", !.note = NoNote,
                          !.alloc = alloc_fresh(@, interp.ctr, I2.ctr)]

PreInit ==
  /\ run.pc = "idle"
  /\ run.phase = "new"
  /\ PreInitDone(pre_init(interp))

LoadDone(p, I2) ==
  /\ interp' = I2
  /\ run' = [run EXCEPT !.phase = "loaded", !.prog = p]
  /\ hist' = [hist EXCEPT !.ev = "load", !.note = NoNote,
                          !.alloc = alloc_fresh(@, interp.ctr, I2.ctr)]

Load(p) ==
  /\ run.pc = "idle"
  /\ run.phase = "init"
  /\ LoadDone(p, load_(interp, Programs[p]))

\* A call of interp_ on the loaded module.
CallInterp ==
  /\ run.pc = "idle"
  /\ run.phase = "loaded"
  /\ run.calls < MaxCalls
  /\ run' = [run EXCEPT !.pc = "running", !.calls = @ + 1, !.ret = "None"]
  /\ hist' = [hist EXCEPT !.ev = "call", !.note = NoNote, !.alloc.got = {},
                          !.clk.got = 0, !.fail.call = FALSE]
  /\ UNCHANGED interp

\* The head frame of I is of kind k and is about to be stepped at port.
At(I, port, k) ==
  /\ I.exc_ = None
  /\ I.knt_ # <<>>
  /\ I.port = port
  /\ I.knt_[1].k = k

\* The tables, bindings, unifier and undo log.
Stores(I) ==
  [table_term |-> I.table_term, table_val |-> I.table_val,
   raw_id_bind |-> I.raw_id_bind, lit_term_bind |-> I.lit_term_bind,
   lit_val_bind |-> I.lit_val_bind, unifier |-> I.unifier, log |-> I.log]

hist_ifs(ifs, I, o) ==
  IF At(I, "Return", "InterpIfStm") /\ I.knt_[1].st.c = "Cond"
  THEN Append(ifs, IfEv("cond", I.knt_[1].code.span, I.knt_[1].st.idx,
                        I.res_.k = "Mat" /\ I.res_.m, I.reg.tctx))
  ELSE IF At(I, "Enter", "InterpIfStm") /\ I.knt_[1].st.c = "Body" /\ o.r = "Cont"
  THEN Append(ifs, IfEv("body", I.knt_[1].code.span, I.knt_[1].st.idx, FALSE,
                        I.reg.tctx))
  ELSE IF At(I, "Enter", "InterpIfStm") /\ I.knt_[1].st.c = "FinalBody" /\ o.r = "Cont"
  THEN Append(ifs, IfEv("else", I.knt_[1].code.span, 0, FALSE, I.reg.tctx))
  ELSE ifs

\* The micro-step from I applies the failure builtin: the continuation is
\* an apply term whose tuple is evaluated and whose head names it.
IsFailureCall(I) ==
  /\ At(I, "Enter", "InterpApplyTerm")
  /\ I.knt_[1].st.cur = <<>>
  /\ I.knt_[1].st.tup # <<>>
  /\ head_is_fun(I, I.knt_[1].st.tup[1])
  /\ Has(I.fun_full, head_fun(I, I.knt_[1].st.tup[1]))
  /\ ~I.fun_full[head_fun(I, I.knt_[1].st.tup[1])].blk
  /\ I.fun_full[head_fun(I, I.knt_[1].st.tup[1])].fun = "FailureFun"

hist_step(h, I, o) ==
  [ev |-> "step",
   alloc |-> [alloc_fresh(h.alloc, I.ctr, o.I.ctr) EXCEPT
                !.marks = IF o.note.pushed
                          THEN Put(@, o.note.root_clk, I.ctr) ELSE @],
   clk |-> clk_step(h.clk, I.clkctr, o.I.clkctr),
   fail |-> [h.fail EXCEPT
               !.call = IsFailureCall(I),
               !.args = IF IsFailureCall(I)
                        THEN Len(I.knt_[1].st.tup) - 1 ELSE 0,
               !.yielded = o.r = "Fail"],
   note |-> o.note,
   vals |-> IF o.note.out = "value" /\ o.r = "Cont"
            THEN Append(h.vals, o.note.v) ELSE h.vals,
   snap |-> IF o.note.pushed THEN Put(h.snap, o.note.root_clk, Obs(I))
            ELSE h.snap,
   rec |-> h.rec,
   entered |-> IF At(I, "Enter", "InterpStm")
               THEN h.entered \cup {I.knt_[1].code.span} ELSE h.entered,
   ifs |-> hist_ifs(h.ifs, I, o),
   noop |-> /\ h.noop
            /\ (At(I, "Enter", "InterpStm")
                /\ I.knt_[1].code.k \in {"Defproc", "Defmatch"})
               => Stores(o.I) = Stores(I),
   halted |-> h.halted \/ o.r = "Halt"]

step_pc(r) ==
  IF r = "Cont" THEN "running"
  ELSE IF r = "Fail" THEN "fail"
  ELSE IF r = "Panic" THEN "dead"
  ELSE "idle"

\* What interp_ returns when resume_ has returned r.
step_ret(r) ==
  IF r \in {"Cont", "Fail"} THEN "None"
  ELSE IF r = "Eval" THEN "Err"
  ELSE r

ResumeDone(I, o) ==
  /\ interp' = o.I
  /\ run' = [run EXCEPT !.pc = step_pc(o.r), !.ret = step_ret(o.r)]
  /\ hist' = hist_step(hist, I, o)

\* One iteration of resume_'s loop inside a call of interp_.
ResumeStep ==
  /\ run.pc = "running"
  /\ ResumeDone(interp, resume_(interp))

FailDone(I, f) ==
  /\ interp' = f.I
  /\ run' = [run EXCEPT !.pc = IF f.r = "Resume" THEN "running" ELSE "idle",
                        !.ret = IF f.r = "Resume" THEN "None" ELSE f.r]
  /\ hist' = [hist EXCEPT
                !.ev = IF f.r = "Resume" THEN "recover" ELSE "fail_end",
                !.note = NoNote,
                !.alloc = alloc_fail(@, fail_mark_clk(I, f)),
                !.clk = [@ EXCEPT !.got = 0],
                !.fail = [call |-> FALSE, args |-> @.args, yielded |-> FALSE,
                          frames |-> Len(I.trace.buf), kept |-> f.I.log = I.log],
                !.rec = IF f.r = "Resume"
                        THEN [lb |-> I.trace.buf[f.p].root_clk,
                              ub |-> I.clkctr + 1,
                              p |-> f.p,
                              xctr |-> I.trace.buf[f.p].xctr,
                              xlb |-> I.trace.buf[f.p].xlb,
                              S |-> hist.snap[I.trace.buf[f.p].root_clk]]
                        ELSE @,
                !.halted = @ \/ f.r = "Halt"]

\* The Fail arm of interp_, whole.
HandleFail ==
  /\ run.pc = "fail"
  /\ FailDone(interp, fail_frames(interp, Len(interp.trace.buf)))

Next ==
  \/ PreInit
  \/ \E p \in DOMAIN Programs : Load(p)
  \/ CallInterp
  \/ ResumeStep
  \/ HandleFail

Spec == Init /\ [][Next]_vars

(* ------------------------------------------------------------------ *)
(* Properties of the interpreter.                                      *)
(* ------------------------------------------------------------------ *)

\* The clocks lb .. ub - 1 are all in the invalid set.
RangeInvalid(I, lb, ub) ==
  \A c \in lb .. (ub - 1) : clkinval_contains(I.clkinval, c)

\* C1: Backtrack equivalence.  Right after the Fail arm has recovered to a
\* live choice frame, the ident bindings, the term and value tables, the
\* class find reports for every handle, the term-context, the result and
\* exception registers, the port and the continuation are those of the
\* state S at the start of the step in which the frame's choice call ran;
\* the handle counter is the restored watermark, the clock is larger than
\* that of S, the invalid set covers the rolled-back range and the frame's
\* counter is one higher.
C1_BacktrackEquivalence ==
  hist.ev = "recover" =>
    /\ Obs(interp) = hist.rec.S
    /\ interp.ctr = hist.rec.xlb
    /\ interp.clkctr > hist.rec.lb - 1
    /\ RangeInvalid(interp, hist.rec.lb, hist.rec.ub)
    /\ interp.trace.buf[hist.rec.p].xctr = hist.rec.xctr + 1

\* The unifier with every cache entry stamped in lb .. ub - 1 dropped.
WithoutCacheRange(u, lb, ub) ==
  [u EXCEPT !.cache =
     [q \in {x \in DOMAIN u.cache : ~(u.cache[x].clk \in lb .. (ub - 1))}
        |-> u.cache[q]]]

\* C3: Invalid-set cache discipline.  Right after a recovery to a frame
\* with root clock lb at clock ub - 1, every clock of [lb, ub) is in the
\* invalid set; and from then on the class find returns for a handle is the
\* class it returns when the cache entries stamped in [lb, ub) are not there.
C3_InvalidSetDiscipline ==
  /\ hist.ev = "recover" => RangeInvalid(interp, hist.rec.lb, hist.rec.ub)
  /\ hist.rec.p # 0 =>
       \A q \in 1 .. interp.ctr :
         unifier_find(interp.unifier, interp.clkinval, interp.clkctr, q).cls
           = unifier_find(WithoutCacheRange(interp.unifier, hist.rec.lb,
                                            hist.rec.ub),
                          interp.clkinval, interp.clkctr, q).cls

\* C6: Choice counter bounds.  Whenever a choice call returns a value, the
\* counter of the frame it used is below the frame's limit; whenever it
\* yields Fail, the counter equals the limit.
C6_ChoiceCounterBounds ==
  hist.note.k = "choice" =>
    /\ hist.note.out = "value" => hist.note.xctr < hist.note.xlim
    /\ hist.note.out = "fail" => hist.note.xctr = hist.note.xlim

\* A choice call re-entered after a recovery has returned the value 1.
C6_Witness ==
  /\ hist.note.k = "choice"
  /\ hist.note.out = "value"
  /\ ~hist.note.pushed
  /\ hist.note.xctr = 1

\* The module choice(3); failure(), and the bound its choice call is given.
ChoiceThenFailure == <<SCall(10, "choice", 3), SCall(20, "failure", -1)>>

ChoiceBound == ChoiceThenFailure[1].term.tup[2].lit

\* C7: Choice enumeration.  For the module choice(3); failure(), the choice
\* call returns 0, 1, 2 in this order and nothing else, and the call of
\* interp_ returns Halt once all three have failed.
C7_ChoiceEnumeration ==
  (/\ run.prog \in DOMAIN Programs
   /\ Programs[run.prog] = ChoiceThenFailure
   /\ run.calls = 1) =>
    /\ \E n \in 0 .. ChoiceBound :
         hist.vals = [i \in 1 .. n |-> i - 1]
    /\ run.pc = "idle" =>
         /\ run.ret = "Halt"
         /\ hist.vals = [i \in 1 .. ChoiceBound |-> i - 1]
         /\ interp.trace.buf = <<>>

\* C8: Port discipline.  Between two iterations of resume_'s loop and
\* whenever interp_ has returned, the port is Enter, Return or Quiescent
\* and the continuation is nil exactly when the port is Quiescent.
C8_PortDiscipline ==
  run.pc \in {"idle", "running"} =>
    /\ interp.port \in {"Enter", "Return", "Quiescent"}
    /\ interp.knt_ = <<>> <=> interp.port = "Quiescent"

\* C9: If semantics.  Conditions are evaluated in case order in Match
\* context; a body runs only right after its own condition matched true,
\* and then no later condition or body of that If is evaluated; the else
\* body runs only after the last condition matched false.
C9_IfSemantics ==
  \A n \in DOMAIN hist.ifs :
    /\ hist.ifs[n].t = "cond" => hist.ifs[n].tctx = "Match"
    /\ hist.ifs[n].t = "body" =>
         /\ n > 1
         /\ hist.ifs[n - 1].t = "cond"
         /\ hist.ifs[n - 1].span = hist.ifs[n].span
         /\ hist.ifs[n - 1].idx = hist.ifs[n].idx
         /\ hist.ifs[n - 1].m
    /\ (hist.ifs[n].t = "cond" /\ hist.ifs[n].idx > 1) =>
         /\ n > 1
         /\ hist.ifs[n - 1].t = "cond"
         /\ hist.ifs[n - 1].span = hist.ifs[n].span
         /\ hist.ifs[n - 1].idx = hist.ifs[n].idx - 1
         /\ ~hist.ifs[n - 1].m
    /\ hist.ifs[n].t = "else" =>
         /\ n > 1
         /\ hist.ifs[n - 1].t = "cond"
         /\ hist.ifs[n - 1].span = hist.ifs[n].span
         /\ ~hist.ifs[n - 1].m

\* C10: Defproc and Defmatch are no-ops.  Entering one changes no table,
\* binding, unifier or undo-log state, and when the module has reached
\* Quiescent every statement that follows an evaluated Defproc or Defmatch
\* in the module body has been entered.
C10_DefsAreNoOps ==
  /\ hist.noop
  /\ (run.phase = "loaded" /\ run.pc = "idle" /\ run.ret = "Quiescent") =>
       \A i, j \in DOMAIN Programs[run.prog] :
         (/\ i < j
          /\ Programs[run.prog][i].k \in {"Defproc", "Defmatch"}
          /\ Programs[run.prog][i].span \in hist.entered)
         => Programs[run.prog][j].span \in hist.entered

\* The kinds of undo entry evaluation appends that C11 names.
UndoKinds == {"Unify", "BindIdent", "BindLitStr", "PutTerm", "PutVal"}

\* C11: Undo handlers are total.  When the Fail arm of interp_ has returned
\* an error, the log entry its undo stopped at (the entry is left on the
\* log) is not a Unify, BindIdent, BindLitStr, PutTerm or PutVal entry:
\* undoing an entry of these kinds that evaluation appended succeeds.
C11_UndoTotal ==
  (hist.ev = "fail_end" /\ run.ret = "Err" /\ interp.log # <<>>) =>
    interp.log[Len(interp.log)].k \notin UndoKinds

C16_TableExclusivity ==
  DOMAIN interp.table_term \cap DOMAIN interp.table_val = {}

\* C19: clock monotonicity.  Every micro-step of the stepper obtains a
\* clock greater than the clock of every earlier micro-step of the run,
\* micro-steps after a Fail recovery included, and the Fail arm never
\* lowers the clock counter below a clock already obtained.
C19_ClockMonotone ==
  /\ hist.clk.mono
  /\ interp.clkctr >= hist.clk.max

\* A micro-step after a Fail recovery has obtained a clock, larger than
\* the clock at which the recovery ran.
C19_Witness ==
  /\ hist.ev = "step"
  /\ hist.rec.p # 0
  /\ hist.clk.got > hist.rec.ub
  /\ hist.clk.got = hist.clk.max

\* C20: failure() yields Fail unconditionally, whatever its arguments and
\* the interpreter state; and when a Fail yield reaches the outer loop
\* while the choice trace holds no frame, interp_ returns Halt and has
\* undone no log entry.
C20_FailureYieldsFail ==
  /\ (hist.ev = "step" /\ hist.fail.call) =>
       /\ hist.fail.yielded
       /\ run.pc = "fail"
  /\ (hist.ev \in {"recover", "fail_end"} /\ hist.fail.frames = 0) =>
       /\ hist.ev = "fail_end"
       /\ run.ret = "Halt"
       /\ hist.fail.kept

\* failure, called with an argument while no choice frame exists, has
\* yielded Fail and interp_ has returned Halt.
C20_Witness ==
  /\ hist.ev = "fail_end"
  /\ hist.fail.frames = 0
  /\ hist.fail.args > 0
  /\ interp.log # <<>>
  /\ run.ret = "Halt"

(* ------------------------------------------------------------------ *)
(* The invalid set driven alone: _insert, _find and _contains calls on *)
(* the set of a fresh interpreter, over the clocks 0 .. MaxIClk.       *)
(* hist.ins is the set of clocks the successful inserts covered.       *)
(* ------------------------------------------------------------------ *)

IClks == 0 .. MaxIClk

InitV ==
  /\ interp = interp_default
  /\ run = [mode |-> "clkinval"]
  /\ hist = [ev |-> "none", lb |-> 0, ub |-> 0, ok |-> TRUE, found |-> None,
             ins |-> {}]

VInsertDone(lb, ub, r) ==
  /\ interp' = [interp EXCEPT !.clkinval = r.inner]
  /\ hist' = [ev |-> "insert", lb |-> lb, ub |-> ub, ok |-> r.ok,
              found |-> None,
              ins |-> IF r.ok THEN hist.ins \cup (lb .. (ub - 1)) ELSE hist.ins]
  /\ UNCHANGED run

\* A call of _insert(lb, ub); it fails, changing nothing, when lb >= ub.
VInsert(lb, ub) == VInsertDone(lb, ub, clkinval_insert(interp.clkinval, lb, ub))

\* A call of _find(c), which _contains(c) wraps.
VFind(c) ==
  /\ hist' = [hist EXCEPT !.ev = "find", !.lb = c, !.ub = c, !.ok = TRUE,
                          !.found = clkinval_find(interp.clkinval, c)]
  /\ UNCHANGED <<interp, run>>

NextV ==
  \/ \E lb \in IClks, ub \in IClks : VInsert(lb, ub)
  \/ \E c \in IClks : VFind(c)

SpecV == InitV /\ [][NextV]_vars

\* C12: Invalid-set membership.  After successful inserts on an empty
\* invalid set, find(c) returns a range exactly when c lies in one of the
\* inserted ranges, the range it returns is stored and holds c, and
\* contains(c) agrees, for every clock c.
C12_InvalidSetMembership ==
  /\ \A c \in IClks :
       clkinval_contains(interp.clkinval, c) <=> c \in hist.ins
  /\ hist.ev = "find" =>
       /\ (hist.found # None) <=> (hist.lb \in hist.ins)
       /\ hist.found # None =>
            /\ hist.found[1].lb <= hist.lb
            /\ hist.lb < hist.found[1].ub
            /\ Has(interp.clkinval, hist.found[1].lb)
            /\ interp.clkinval[hist.found[1].lb] = hist.found[1].ub

\* C13: Invalid-set merging.  After successful inserts, no two ranges stored
\* in the map overlap or are adjacent.
C13_InvalidSetMerging ==
  \A l1, l2 \in DOMAIN interp.clkinval :
    l1 < l2 => interp.clkinval[l1] < l2

(* ------------------------------------------------------------------ *)
(* _find against an invalid set: the unifier of a fresh interpreter    *)
(* driven by unify, find and the log rollback, while its caller        *)
(* inserts clock ranges into the invalid set that _find is handed.     *)
(* ------------------------------------------------------------------ *)

FHandles == 1 .. NumFHandles

\* The cache entry of handle x is one the invalid set contains.
StaleAt(u, inval, x) ==
  Has(u.cache, x) /\ clkinval_contains(inval, u.cache[x].clk)

\* hist tells whether the last call was a find, whether that find met a
\* stale entry at its own handle and whether it returned its own handle.
NoFind == [ev |-> "other", stale |-> FALSE, own |-> FALSE]

InitF ==
  /\ interp = interp_default
  /\ run = [mode |-> "find", tick |-> FALSE, inserts |-> 0]
  /\ hist = NoFind

FUnifyDone(r) ==
  /\ r.ok
  /\ interp' = r.I
  /\ run' = [run EXCEPT !.tick = FALSE]
  /\ hist' = NoFind

\* A unify(a, b) call, in the current step or (tick) in a fresh one.
\* unify(a, b) with a > b is unify(b, a) and with a = b is find(a), so the
\* pairs a < b are the unify inputs.
FUnify(a, b, tick) ==
  /\ a < b
  /\ run.tick => tick
  /\ interp.clkctr + (IF tick THEN 1 ELSE 0) <= MaxFClk
  /\ FUnifyDone(unify([interp EXCEPT !.clkctr = @ + (IF tick THEN 1 ELSE 0)],
                      interp.clkctr + (IF tick THEN 1 ELSE 0), a, b))

FFindDone(q, r) ==
  /\ r.ok
  /\ interp' = r.I
  /\ hist' = [ev |-> "find",
              stale |-> /\ q \notin interp.unifier.root
                        /\ StaleAt(interp.unifier, interp.clkinval, q),
              own |-> r.cls = q]
  /\ UNCHANGED run

\* A find(q) call.
FFind(q) == FFindDone(q, find(interp, interp.clkctr, q))

FRollbackDone(r) ==
  /\ r.ok
  /\ interp' = r.I
  /\ hist' = NoFind
  /\ run' = [run EXCEPT !.tick = TRUE]

\* The log rollback of a Fail recovery to root clock rst_clk.
FRollback(rst_clk) ==
  /\ interp.log # <<>>
  /\ interp.log[Len(interp.log)].clk >= rst_clk
  /\ FRollbackDone(undo_log(interp, rst_clk))

FInvalidateDone(r) ==
  /\ r.ok
  /\ interp' = [interp EXCEPT !.clkinval = r.inner]
  /\ run' = [run EXCEPT !.inserts = @ + 1]
  /\ hist' = NoFind

\* The caller inserts into the invalid set the range a recovery to root
\* clock lb at the current clock rolls back: [lb, current clock + 1).
FInvalidate(lb) ==
  /\ run.inserts < MaxFInserts
  /\ lb <= interp.clkctr
  /\ FInvalidateDone(clkinval_insert(interp.clkinval, lb, interp.clkctr + 1))

NextF ==
  \/ \E a \in FHandles, b \in FHandles, tick \in BOOLEAN : FUnify(a, b, tick)
  \/ \E q \in FHandles : FFind(q)
  \/ \E c \in 1 .. MaxFClk : FRollback(c)
  \/ \E lb \in 0 .. MaxFClk : FInvalidate(lb)

SpecF == InitF /\ [][NextF]_vars

\* The handles met from cursor on when only cache entries the invalid set
\* does not contain and, where there is none, tree parents are followed.
RECURSIVE RefWalk(_, _, _)
RefWalk(u, inval, cursor) ==
  IF Has(u.cache, cursor) /\ ~clkinval_contains(inval, u.cache[cursor].clk)
  THEN <<cursor>> \o RefWalk(u, inval, u.cache[cursor].up)
  ELSE IF Has(u.tree, cursor)
  THEN <<cursor>> \o RefWalk(u, inval, u.tree[cursor].up)
  ELSE <<cursor>>

\* The cache entry of handle x is one the invalid set does not contain.
ValidAt(u, inval, x) ==
  Has(u.cache, x) /\ ~clkinval_contains(inval, u.cache[x].clk)

\* The result r of find(q) on unifier u, against the reference walk w: the
\* class is the end of the walk, and a stale entry met on the walk is gone
\* from the cache unless the walk went on through a valid cache entry, in
\* which case the handle was given that entry's parent.
FindAvoidsStale(u, inval, q, r, w) ==
  IF q \in u.root THEN r.ok /\ r.cls = q /\ r.cache = u.cache
  ELSE /\ r.ok
       /\ r.cls = w[Len(w)]
       /\ \A i \in 1 .. Len(w) :
            StaleAt(u, inval, w[i]) =>
              IF i < Len(w) /\ ValidAt(u, inval, w[i + 1])
              THEN /\ Has(r.cache, w[i])
                   /\ r.cache[w[i]].up = u.cache[w[i + 1]].up
              ELSE ~Has(r.cache, w[i])

\* C14: find never uses a stale cache entry.  In every state, for every
\* handle q, find(q) returns the root reached by following only cache
\* entries whose clock the invalid set does not contain and tree parents,
\* and every cache entry it met whose clock the invalid set contains is
\* no longer in the cache it leaves.
C14_FindDropsStale ==
  \A q \in FHandles :
    FindAvoidsStale(interp.unifier, interp.clkinval, q,
                    unifier_find(interp.unifier, interp.clkinval,
                                 interp.clkctr, q),
                    RefWalk(interp.unifier, interp.clkinval, q))

\* A find call has just met a stale cache entry at its own handle, dropped
\* it and returned the handle itself as the class.
C14_Witness ==
  /\ hist.ev = "find"
  /\ hist.stale
  /\ hist.own
  /\ \E q \in FHandles : ~Has(interp.unifier.cache, q) /\ Has(interp.unifier.prev, q)

(* ------------------------------------------------------------------ *)
(* The handle counter and the clock counter driven alone.  A raw       *)
(* handle is a RawSNumBits-bit word, written here as the pair of its   *)
(* high bits (key) and its low SNUM_TAG_BITS bits (tag).               *)
(* ------------------------------------------------------------------ *)

RawSNumBits == 32

SNUM_TAG_BITS == 8

SNUM_TAG_MASK == 255

\* The number of keys a raw handle can hold.
SNumKeySpace == 2 ^ (RawSNumBits - SNUM_TAG_BITS)

\* The raw word v << SNUM_TAG_BITS: the bits shifted out at the top are lost.
SNum_shl(v) == [key |-> v % SNumKeySpace, tag |-> 0]

SNum_key(x) == x.key

SNum_tag(x) == x.tag

SNumCtr_reset(rctr, new_x) == SNum_key(new_x)

SNumCtr_fresh(rctr) == [rctr |-> rctr + 1, x |-> SNum_shl(rctr + 1)]

SNumCtr_get(rctr) == SNum_shl(rctr)

\* _fresh_clock() returning the tick before the increment.
LClkCtr_fresh_clock_old_tick(rctr) == [rctr |-> rctr + 1, clk |-> rctr]

LClkCtr_fresh_clock(rctr) == [rctr |-> rctr + 1, clk |-> rctr + 1]

LClkCtr_get_clock(rctr) == rctr

LClkCtr_next_clock(rctr) == rctr + 1

\* The handles given to _reset: low and high keys, with and without a tag.
KResetHandles ==
  [key : {0, 1, SNumKeySpace - 1}, tag : {0, SNUM_TAG_MASK}]

\* hist records the last call (ev), the counters before it (rctr0, tick0),
\* what _get_clock() and _next_clock() reported before it (get0, next0),
\* what it returned (x or clk), the key of the last fresh() when no reset
\* came after it (prev, -1 if none), the value prev had before the last
\* fresh() (prev0) and the key of the last reset (rst, -1 if none).
NoCall ==
  [ev |-> "none", rctr0 |-> 0, tick0 |-> 0, get0 |-> 0, next0 |-> 0,
   x |-> SNum_shl(0), clk |-> 0, prev |-> -1, prev0 |-> -1, rst |-> -1]

KCall(ev) ==
  [hist EXCEPT !.ev = ev, !.rctr0 = interp.ctr, !.tick0 = interp.clkctr,
               !.get0 = LClkCtr_get_clock(interp.clkctr),
               !.next0 = LClkCtr_next_clock(interp.clkctr)]

InitK ==
  /\ \E c \in {0, SNumKeySpace - MaxKFresh} :
       interp = [ctr |-> c, clkctr |-> 0]
  /\ run = [mode |-> "counters", fresh |-> 0]
  /\ hist = NoCall

KFreshDone(r) ==
  /\ interp' = [interp EXCEPT !.ctr = r.rctr]
  /\ run' = [run EXCEPT !.fresh = @ + 1]
  /\ hist' = [KCall("fresh") EXCEPT !.x = r.x, !.prev = SNum_key(r.x),
                                    !.prev0 = hist.prev]

\* A call of _fresh().
KFresh ==
  /\ run.fresh < MaxKFresh
  /\ KFreshDone(SNumCtr_fresh(interp.ctr))

\* A call of _peek().
KPeek ==
  /\ hist' = [KCall("peek") EXCEPT !.x = SNumCtr_get(interp.ctr)]
  /\ UNCHANGED <<interp, run>>

\* A call of ctr._reset(x).
KReset(x) ==
  /\ interp' = [interp EXCEPT !.ctr = SNumCtr_reset(@, x)]
  /\ hist' = [KCall("reset") EXCEPT !.x = x, !.prev = -1,
                                    !.rst = SNum_key(x)]
  /\ UNCHANGED run

KFreshClockDone(r) ==
  /\ interp' = [interp EXCEPT !.clkctr = r.rctr]
  /\ hist' = [KCall("fresh_clock") EXCEPT !.clk = r.clk]
  /\ UNCHANGED run

\* A call of _fresh_clock().
KFreshClock ==
  /\ interp.clkctr < MaxKClk
  /\ KFreshClockDone(LClkCtr_fresh_clock(interp.clkctr))

\* A call of _get_clock().
KGetClock ==
  /\ hist' = [KCall("get_clock") EXCEPT
                !.clk = LClkCtr_get_clock(interp.clkctr)]
  /\ UNCHANGED <<interp, run>>

\* A call of _next_clock().
KNextClock ==
  /\ hist' = [KCall("next_clock") EXCEPT
                !.clk = LClkCtr_next_clock(interp.clkctr)]
  /\ UNCHANGED <<interp, run>>

NextK ==
  \/ KFresh
  \/ KPeek
  \/ \E x \in KResetHandles : KReset(x)
  \/ KFreshClock
  \/ KGetClock
  \/ KNextClock

SpecK == InitK /\ [][NextK]_vars

\* C17: allocator watermark.  fresh() returns a handle with zero tag whose
\* key is the watermark plus one and advances the watermark by one, so its
\* key is greater than the key of the fresh() before it when no reset came
\* between; peek() returns the watermark and leaves it alone; after
\* reset(x) the next fresh() returns key x.key + 1 and every later fresh()
\* a key greater than x.key.
C17_AllocatorWatermark ==
  /\ hist.ev = "fresh" =>
       /\ SNum_tag(hist.x) = 0
       /\ SNum_key(hist.x) = hist.rctr0 + 1
       /\ interp.ctr = hist.rctr0 + 1
  /\ (hist.ev = "fresh" /\ hist.prev0 # -1) =>
       SNum_key(hist.x) > hist.prev0
  /\ hist.ev = "peek" =>
       /\ SNum_key(hist.x) = hist.rctr0
       /\ interp.ctr = hist.rctr0
  /\ hist.ev = "reset" =>
       SNum_key(SNumCtr_fresh(interp.ctr).x) = SNum_key(hist.x) + 1
  /\ (hist.ev = "fresh" /\ hist.rst # -1) => SNum_key(hist.x) > hist.rst

\* The statements of C17 hold of every call made while the watermark is
\* below the last key a raw handle can hold.
WatermarkBelowKeySpace ==
  (interp.ctr < SNumKeySpace - 1 /\ hist.rctr0 < SNumKeySpace - 1) =>
    C17_AllocatorWatermark

\* C18 as stated: fresh_clock() returns the tick that get_clock() reported
\* immediately before the call and then increments the tick by one;
\* next_clock() returns tick + 1 and get_clock() returns the tick, and
\* neither changes the tick.
C18_ClockOperations ==
  /\ hist.ev = "fresh_clock" =>
       /\ hist.clk = hist.get0
       /\ interp.clkctr = hist.tick0 + 1
  /\ hist.ev = "next_clock" =>
       /\ hist.clk = hist.tick0 + 1
       /\ interp.clkctr = hist.tick0
  /\ hist.ev = "get_clock" =>
       /\ hist.clk = hist.tick0
       /\ interp.clkctr = hist.tick0

\* C18 amended: fresh_clock() increments the tick by one and returns the
\* incremented tick: the value next_clock() reported immediately before the
\* call and get_clock() reports immediately after it.  next_clock() returns
\* tick + 1 and get_clock() returns the tick, and neither changes the tick.
C18_FreshClockReturnsNewTick ==
  /\ hist.ev = "fresh_clock" =>
       /\ hist.clk = hist.next0
       /\ hist.clk = LClkCtr_get_clock(interp.clkctr)
       /\ hist.clk = hist.get0 + 1
       /\ interp.clkctr = hist.tick0 + 1
  /\ hist.ev = "next_clock" =>
       /\ hist.clk = hist.tick0 + 1
       /\ interp.clkctr = hist.tick0
  /\ hist.ev = "get_clock" =>
       /\ hist.clk = hist.tick0
       /\ interp.clkctr = hist.tick0

\* fresh_clock() has just been called on a clock that had ticked before.
C18_Witness ==
  /\ run.mode = "counters"
  /\ hist.ev = "fresh_clock"
  /\ hist.tick0 > 0
  /\ hist.clk = hist.tick0 + 1

(* ------------------------------------------------------------------ *)
(* The interpreter with a host that sets the exception register: the   *)
(* register is a field of FastInterp that code holding the interpreter *)
(* (a builtin, the embedding program) can set between two iterations   *)
(* of the stepper.                                                     *)
(* ------------------------------------------------------------------ *)

Except_from(msg) == [_err |-> Some(msg)]

\* The exception register is set while a module is loaded.
SetExcept ==
  /\ run.phase = "loaded"
  /\ run.pc \in {"idle", "running"}
  /\ interp.exc_ = None
  /\ interp' = [interp EXCEPT !.exc_ = Some(Except_from("raised"))]
  /\ hist' = [hist EXCEPT !.ev = "set_except", !.note = NoNote]
  /\ UNCHANGED run

NextX ==
  \/ Next
  \/ SetExcept

SpecX == Init /\ [][NextX]_vars

\* C21: exception register.  When the exception register is set as the
\* stepper is entered, the step yields Raise and interp_ returns Raise, and
\* the step leaves the whole interpreter as it was: the continuation is not
\* taken, the clock does not advance, and the port, the tables, the unifier
\* and the log do not change.
C21_ExceptionRaises ==
  [][(run.pc = "running" /\ interp.exc_ # None /\ hist'.ev = "step") =>
       /\ run'.pc = "idle"
       /\ run'.ret = "Raise"
       /\ interp' = interp]_vars

\* The stepper, entered with the exception register set and a continuation
\* to take, has returned Raise.
C21_Witness ==
  /\ hist.ev = "step"
  /\ interp.exc_ # None
  /\ interp.knt_ # <<>>
  /\ run.ret = "Raise"

\* C22: error propagation without mutation.  When a step fails with an
\* InterpCheck, resume_ and interp_ return the error and the failing step
\* leaves the continuation, the port and the result register as they were
\* when it began.
C22_ErrorLeavesState ==
  [][(run.pc = "running" /\ hist'.ev = "step" /\ run'.ret = "Err") =>
       /\ run'.pc = "idle"
       /\ interp'.knt_ = interp.knt_
       /\ interp'.port = interp.port
       /\ interp'.res_ = interp.res_]_vars

\* The clocks of the log are non-decreasing from head to tail.
LogClocksSorted(log) ==
  \A i, j \in DOMAIN log : i < j => log[i].clk <= log[j].clk

\* The scan that took log0 to log1 on a recovery to root clock r popped
\* entries from the tail only, popped every entry down to the first one
\* from the tail with a clock below r, and left no entry with a clock of r
\* or more.
UndoScanTo(log0, log1, r) ==
  /\ Len(log1) <= Len(log0)
  /\ log1 = SubSeq(log0, 1, Len(log1))
  /\ \A i \in (Len(log1) + 1) .. Len(log0) : log0[i].clk >= r
  /\ \A i \in DOMAIN log1 : log1[i].clk < r

\* C23: undo scan.  The clocks of the log never decrease from head to
\* tail; and a Fail recovery to a frame with root clock r pops entries
\* from the tail of the log only, stops at the first entry from the tail
\* whose clock is less than r, and leaves only entries with clocks less
\* than r.
C23_UndoScan ==
  /\ []LogClocksSorted(interp.log)
  /\ [][(run.pc = "fail" /\ hist'.ev = "recover") =>
          UndoScanTo(interp.log, interp'.log, hist'.rec.lb)]_vars

\* A recovery has popped entries and has left entries in the log.
C23_Witness ==
  /\ hist.ev = "recover"
  /\ ~hist.fail.kept
  /\ interp.log # <<>>
  /\ interp.log[Len(interp.log)].clk < hist.rec.lb

\* Every key that table t1 holds and table t0 did not is the handle of an
\* entry of kind k appended to log0 to give log1.
InsertsLogged(t0, t1, log0, log1, k) ==
  \A x \in DOMAIN t1 \ DOMAIN t0 :
    \E i \in (Len(log0) + 1) .. Len(log1) : log1[i].k = k /\ log1[i].a.x = x

\* Every entry of table t is an entry that table t0 held.
NoLaterEntry(t, t0) == \A x \in DOMAIN t : Has(t0, x) /\ t0[x] = t[x]

\* C24: logged table writes.  Every step that inserts a record into the
\* term or the value table appends an undo-log entry for the inserted
\* handle; and after a Fail recovery to a choice frame the two tables hold
\* no entry inserted at or after the frame's root clock, that is, none
\* that they did not hold when the step that pushed the frame began.
C24_LoggedTableWrites ==
  /\ [][hist'.ev = "step" =>
          /\ InsertsLogged(interp.table_term, interp'.table_term,
                           interp.log, interp'.log, "PutTerm")
          /\ InsertsLogged(interp.table_val, interp'.table_val,
                           interp.log, interp'.log, "PutVal")]_vars
  /\ [](hist.ev = "recover" =>
          /\ NoLaterEntry(interp.table_term, hist.rec.S.table_term)
          /\ NoLaterEntry(interp.table_val, hist.rec.S.table_val))

\* C25: register restore.  After a Fail recovery to a choice frame the
\* term-context register equals the term-context the frame saved when
\* choice was called, whatever term-context was in force when the failure
\* occurred.
C25_RegisterRestore ==
  hist.ev = "recover" =>
    interp.reg.tctx = interp.trace.buf[hist.rec.p].reg.tctx

\* The bound the choice call at the head of continuation K is given in the
\* program text: its integer argument, or the maximum rank without one.
GivenBound(K) ==
  IF Len(K[1].code.tup) > 1 THEN K[1].code.tup[2].lit ELSE RawChoiceRankMax

\* The choice call of a step from I to J at clock clk was a re-entry of
\* the frame at position pos: the trace has changed in that frame's
\* last-clock only, and the call used that frame's counter.
ChoiceReentered(I, J, clk, note, pos) ==
  /\ ~note.pushed
  /\ Len(J.trace.buf) = Len(I.trace.buf)
  /\ J.trace = [I.trace EXCEPT !.buf[pos].last_clk = clk]
  /\ note.root_clk = I.reg.rst_clk
  /\ note.xctr = I.trace.buf[pos].xctr

\* The choice call of a step from I to J at clock clk pushed one frame.
ChoicePushed(I, J, clk, note) ==
  /\ note.pushed
  /\ Len(J.trace.buf) = Len(I.trace.buf) + 1
  /\ SubSeq(J.trace.buf, 1, Len(I.trace.buf)) = I.trace.buf
  /\ J.trace.buf[Len(J.trace.buf)].xctr = 0
  /\ J.trace.buf[Len(J.trace.buf)].root_clk = clk
  /\ J.trace.buf[Len(J.trace.buf)].xlim = GivenBound(I.knt_)

\* C26: choice re-entry.  A choice call made while rst-clk names the root
\* clock of a frame of the trace pushes no frame, leaves the trace length
\* as it was, uses that frame's counter and sets its last-clock to the
\* current clock; any other choice call pushes exactly one frame with
\* counter 0, the current clock as root clock and the given bound as limit
\* (65535 without a bound).  rst-clk is nil after the call in both cases.
C26_ChoiceReentry ==
  [][(hist'.ev = "step" /\ hist'.note.k = "choice") =>
       /\ interp'.reg.rst_clk = 0
       /\ IF interp.reg.rst_clk # 0
             /\ Has(interp.trace.clk_pos, interp.reg.rst_clk)
          THEN ChoiceReentered(interp, interp', interp'.clkctr, hist'.note,
                               interp.trace.clk_pos[interp.reg.rst_clk])
          ELSE ChoicePushed(interp, interp', interp'.clkctr, hist'.note)]_vars

\* A choice call has re-entered a frame pushed at an earlier clock.
C26_Witness ==
  /\ hist.ev = "step"
  /\ hist.note.k = "choice"
  /\ ~hist.note.pushed
  /\ hist.note.xctr > 0
  /\ hist.note.root_clk < interp.clkctr
  /\ Has(interp.trace.clk_pos, hist.note.root_clk)
  /\ interp.trace.buf[interp.trace.clk_pos[hist.note.root_clk]].last_clk
       = interp.clkctr

\* The frames of trace t0 that are still frames of trace t1 hold the
\* continuation and the control registers (port, result register and
\* exception register) they held in t0.
SnapshotsKept(t0, t1) ==
  \A p \in DOMAIN t0.buf \cap DOMAIN t1.buf :
    t1.buf[p].root_clk = t0.buf[p].root_clk =>
      /\ t1.buf[p].knt_ = t0.buf[p].knt_
      /\ t1.buf[p].ctl_ = t0.buf[p].ctl_

\* I resumes from the snapshot of frame te: the Apply frame of the choice
\* call with its arguments evaluated, at port Enter.
ResumesFrom(I, te) ==
  /\ I.knt_ = te.knt_
  /\ I.port = te.ctl_.port
  /\ I.res_ = te.ctl_.res_
  /\ I.exc_ = te.ctl_.exc_
  /\ I.port = "Enter"
  /\ I.knt_ # <<>>
  /\ I.knt_[1].k = "InterpApplyTerm"
  /\ I.knt_[1].st.cur = <<>>
  /\ I.knt_[1].code.tup[1].id = "choice"

\* C27: choice-frame snapshots are immutable.  From the push of a choice
\* frame until its pop no step and no recovery changes the continuation,
\* port, result register or exception register saved in it; and every
\* recovery to the frame resumes from that snapshot: the Apply frame of
\* the choice call, at its Fin cursor, with port Enter.
C27_SnapshotsImmutable ==
  /\ [][SnapshotsKept(interp.trace, interp'.trace)]_vars
  /\ [](hist.ev = "recover" =>
          ResumesFrom(interp, interp.trace.buf[hist.rec.p]))

\* A recovery has resumed from the snapshot of the second frame of the
\* trace, several steps after the frame's push.
C27_Witness ==
  /\ hist.ev = "recover"
  /\ hist.rec.p > 1
  /\ hist.rec.ub > hist.rec.lb + 2
  /\ interp.trace.buf[hist.rec.p].xctr = 1
  /\ ResumesFrom(interp, interp.trace.buf[hist.rec.p])

\* Handles a and b are connected by tree edges of unifier u.
SameClass(u, a, b) == TreeRoot(u, a) = TreeRoot(u, b)

\* The root set, tree, next and prev of u1 are those of u0.
UnifierKept(u0, u1) ==
  /\ u1.root = u0.root
  /\ u1.tree = u0.tree
  /\ u1.next = u0.next
  /\ u1.prev = u0.prev

\* log1 is log0 with one Unify entry stamped clk appended.
OneUnifyEntry(log0, log1, clk) ==
  /\ Len(log1) = Len(log0) + 1
  /\ SubSeq(log1, 1, Len(log0)) = log0
  /\ log1[Len(log1)].k = "Unify"
  /\ log1[Len(log1)].clk = clk

\* The call unify(a, b) at clock clk that took unifier u0 and log0 to u1
\* and log1 and returned ret either merged two distinct classes and logged
\* one Unify entry, or changed nothing; and it changed nothing and
\* returned the class of a when a and b were equal or in one class.
UnifyLogsMerges(u0, u1, log0, log1, clk, a, b, ret) ==
  /\ \/ /\ ~SameClass(u0, a, b)
        /\ SameClass(u1, a, b)
        /\ OneUnifyEntry(log0, log1, clk)
     \/ /\ UnifierKept(u0, u1)
        /\ log1 = log0
  /\ SameClass(u0, a, b) =>
       /\ UnifierKept(u0, u1)
       /\ log1 = log0
       /\ ret = TreeRoot(u0, a)

\* C28: unify appends exactly one Unify undo entry, stamped with the clock
\* passed to it, if and only if it merges two distinct classes; when the
\* two handles are equal or already in one class it returns that class and
\* leaves the root set, tree, next, prev and the undo log unchanged.
C28_UnifyLogsMerges ==
  [][hist'.ev.k = "unify" =>
       UnifyLogsMerges(interp.unifier, interp'.unifier, interp.log,
                       interp'.log, interp'.clkctr, hist'.ev.a, hist'.ev.b,
                       hist'.ev.ret)]_vars

\* The statement of C28 holds of every unify call made before any undo.
UnifyLogsMergesBeforeUndo ==
  [][(hist'.ev.k = "unify" /\ hist.undos = 0) =>
       UnifyLogsMerges(interp.unifier, interp'.unifier, interp.log,
                       interp'.log, interp'.clkctr, hist'.ev.a, hist'.ev.b,
                       hist'.ev.ret)]_vars

\* Following at most n parent links of the tree from k reaches a member of
\* the root set.
RECURSIVE ReachesRoot(_, _, _)
ReachesRoot(u, k, n) ==
  \/ k \in u.root
  \/ /\ n > 0
     /\ Has(u.tree, k)
     /\ ReachesRoot(u, u.tree[k].up, n - 1)

\* C29: invariant U1.  In every unifier state reached by unify calls and
\* last-in-first-out undo of Unify entries, following parent links from
\* any key of tree reaches, after finitely many steps, a member of the
\* root set.
C29_TreeReachesRoot ==
  \A k \in DOMAIN interp.unifier.tree :
    ReachesRoot(interp.unifier, k, NumHandles)

\* The statement of C29 holds as long as no entry has been undone.
TreeReachesRootBeforeUndo == hist.undos = 0 => C29_TreeReachesRoot

\* The handles reached from h by at most n applications of next, h itself
\* among them.
RECURSIVE NextOrbit(_, _, _)
NextOrbit(u, h, n) ==
  IF n = 0 THEN {h}
  ELSE {h} \cup NextOrbit(u, unifier_next(u, h), n - 1)

\* The handle n applications of next lead to from h.
RECURSIVE NextTimes(_, _, _)
NextTimes(u, h, n) ==
  IF n = 0 THEN h ELSE NextTimes(u, unifier_next(u, h), n - 1)

\* C30: invariant U4.  In every unifier state reached by unify calls and
\* last-in-first-out undo of Unify entries, following next from any handle
\* h returns to h after visiting exactly the handles connected to h by
\* tree edges, each once, and prev is the inverse of next along the cycle.
C30_NextCycleIsClass ==
  \A h \in Handles :
    LET members == TreeMembers(interp.unifier, TreeRoot(interp.unifier, h))
    IN  /\ NextOrbit(interp.unifier, h, NumHandles) = members
        /\ NextTimes(interp.unifier, h, Cardinality(members)) = h
        /\ \A q \in members :
             unifier_prev(interp.unifier, unifier_next(interp.unifier, q)) = q

\* All handles are in one class again after a merge was undone.
C30_Witness ==
  /\ hist.undos > 0
  /\ hist.ev.k = "unify"
  /\ \A q \in Handles : TreeRoot(interp.unifier, q) = 1
  /\ NextOrbit(interp.unifier, NumHandles, NumHandles) = Handles

(* ------------------------------------------------------------------ *)
(* Properties of the term evaluators.                                  *)
(* ------------------------------------------------------------------ *)

\* The micro-step from I is the step of an Equal term at cursor cur.
EqualAt(I, port, cur) ==
  /\ At(I, port, "InterpEqualTerm")
  /\ I.knt_[1].st.cur = cur

\* The links of the unifier and the undo log are the same in I and J.
LinksKept(I, J) ==
  /\ J.unifier.root = I.unifier.root
  /\ J.unifier.tree = I.unifier.tree
  /\ J.unifier.next = I.unifier.next
  /\ J.unifier.prev = I.unifier.prev
  /\ J.log = I.log

\* Whether find, called for l and then for r at clock clk, reports one
\* class for both.
FindSameClass(I, clk, l, r) ==
  find(I, clk, l).cls = find(find(I, clk, l).I, clk, r).cls

\* The step from I to J of an Equal term at Fin, for the handles l and r
\* of its sides, at clock clk.
EqualFin(I, J, clk, l, r) ==
  /\ J.port = "Return"
  /\ J.knt_ = Tail(I.knt_)
  /\ I.reg.tctx = "Unify" =>
       /\ J.unifier = unify(I, clk, l, r).I.unifier
       /\ J.log = unify(I, clk, l, r).I.log
       /\ J.res_ = I.res_
  /\ I.reg.tctx = "Match" =>
       /\ J.res_ = ResMat(FindSameClass(I, clk, l, r))
       /\ LinksKept(I, J)

\* C31: Equal.  An Equal term evaluates its left side, then its right side;
\* at Fin in Unify term-context it calls unify(lhs, rhs); at Fin in Match
\* term-context it writes a boolean match result that is true exactly when
\* find reports the same class for lhs and rhs, and performs no union: the
\* root set, tree, next, prev and the undo log are unchanged.
C31_EqualTerm ==
  [][(run.pc = "running" /\ hist'.ev = "step" /\ run'.pc = "running") =>
       /\ EqualAt(interp, "Enter", "LTerm") =>
            /\ interp'.knt_[1].k = "InterpTerm"
            /\ interp'.knt_[1].code = interp.knt_[1].code.lterm
            /\ interp.knt_[1].st.rterm = 0
       /\ EqualAt(interp, "Return", "LTerm") =>
            /\ interp'.knt_[1].st.cur = "RTerm"
            /\ interp'.knt_[1].st.lterm = interp.res_.x
       /\ EqualAt(interp, "Enter", "RTerm") =>
            /\ interp'.knt_[1].k = "InterpTerm"
            /\ interp'.knt_[1].code = interp.knt_[1].code.rterm
            /\ interp.knt_[1].st.lterm # 0
       /\ EqualAt(interp, "Return", "RTerm") =>
            /\ interp'.knt_[1].st.cur = "Fin"
            /\ interp'.knt_[1].st.rterm = interp.res_.x
       /\ EqualAt(interp, "Enter", "Fin") =>
            EqualFin(interp, interp', interp'.clkctr,
                     interp.knt_[1].st.lterm, interp.knt_[1].st.rterm)]_vars

\* A Match-context Equal has just written a false match result for two
\* handles of different classes, after an Equal in Unify context has logged
\* a merge.
C31_Witness ==
  /\ hist.ev = "step"
  /\ interp.res_ = ResMat(FALSE)
  /\ interp.port = "Return"
  /\ interp.reg.tctx = "Match"
  /\ \E i \in DOMAIN interp.log : interp.log[i].k = "Unify"

\* The micro-step from I is the Fin step of an ApplyBindL or ApplyBindR.
ApplyBindFinAt(I) ==
  /\ \/ At(I, "Enter", "InterpApplyBindLTerm")
     \/ At(I, "Enter", "InterpApplyBindRTerm")
  /\ I.knt_[1].st.c = "Fin"

\* The Fin step from I to J of an apply-bind whose cells gave the handles
\* tup and whose bind expression gave the handle y.
ApplyBindFin(I, J, tup, y) ==
  /\ J.ctr = I.ctr + 1
  /\ Has(J.table_term, I.ctr + 1)
  /\ ~Has(I.table_term, I.ctr + 1)
  /\ J.table_term[I.ctr + 1].k = "TupleTerm"
  /\ [i \in DOMAIN tup |-> J.table_term[I.ctr + 1].buf[i].inst] = tup
  /\ DOMAIN J.table_term = DOMAIN I.table_term \cup {I.ctr + 1}
  /\ TreeRoot(J.unifier, I.ctr + 1) = TreeRoot(J.unifier, y)
  /\ FindClass(J, I.ctr + 1) = FindClass(J, y)
  /\ FindClass(J, y).ok
  /\ J.res_ = ResKey(y)
  /\ y # I.ctr + 1
  /\ J.port = "Return"
  /\ J.knt_ = Tail(I.knt_)

NoDanglingBinding(I) ==
  \A id \in DOMAIN I.raw_id_bind : Has(I.table_term, I.raw_id_bind[id])

\* The log holds the entry of the binding of every bound identifier after
\* the entry of the term record it is bound to, so that an undo from the
\* tail meets the binding first.
BindingLoggedAfterTerm(I) ==
  \A id \in DOMAIN I.raw_id_bind :
    \E i, j \in DOMAIN I.log :
      /\ i < j
      /\ I.log[i].k = "PutTerm"
      /\ I.log[i].a.x = I.raw_id_bind[id]
      /\ I.log[j].k = "BindIdent"
      /\ I.log[j].a.id = id

\* The micro-step from I to J evaluates the identifier id.
IdentEvaluated(I, J, id) ==
  /\ Has(I.raw_id_bind, id) =>
       /\ J.res_ = ResKey(I.raw_id_bind[id])
       /\ Stores(J) = Stores(I)
       /\ J.ctr = I.ctr
       /\ J.trace = I.trace
  /\ ~Has(I.raw_id_bind, id) =>
       /\ J.ctr = I.ctr + 1
       /\ J.table_term = Put(I.table_term, I.ctr + 1, IdentTerm(id))
       /\ J.raw_id_bind = Put(I.raw_id_bind, id, I.ctr + 1)
       /\ Len(J.log) = Len(I.log) + 2
       /\ SubSeq(J.log, 1, Len(I.log)) = I.log
       /\ J.log[Len(I.log) + 1].k = "PutTerm"
       /\ J.log[Len(I.log) + 1].a.x = I.ctr + 1
       /\ J.log[Len(I.log) + 2].k = "BindIdent"
       /\ J.log[Len(I.log) + 2].a.id = id
       /\ J.res_ = ResKey(I.ctr + 1)

\* C33: no dangling ident binding.  Evaluating an unbound identifier
\* inserts its IdentTerm in the term table and then its binding, each with
\* an undo entry, and the Fail arm undoes the binding before it removes
\* the term record; between steps, before and after any recovery, every
\* handle stored in the ident-binding map has a record in the term table;
\* evaluating an already bound identifier returns the bound handle and
\* changes no table, binding, unifier or log.
C33_NoDanglingBinding ==
  /\ [](NoDanglingBinding(interp) /\ BindingLoggedAfterTerm(interp))
  /\ [][(/\ run.pc = "running"
         /\ hist'.ev = "step"
         /\ run'.pc = "running"
         /\ At(interp, "Enter", "InterpTerm")
         /\ interp.knt_[1].code.k = "Ident") =>
          IdentEvaluated(interp, interp', interp.knt_[1].code.id)]_vars

\* A recovery has undone the binding of an identifier that was bound after
\* the choice, and removed its term record, while an identifier bound
\* before the choice is still bound.
C33_Witness ==
  /\ hist.ev = "recover"
  /\ run.prog = 14
  /\ Has(interp.raw_id_bind, "choice")
  /\ ~Has(interp.raw_id_bind, "w")
  /\ Has(hist.rec.S.raw_id_bind, "choice")
  /\ \A x \in DOMAIN interp.table_term :
       interp.table_term[x] # IdentTerm("w")

(* ------------------------------------------------------------------ *)
(* The loader's index-interning driven alone: _load_raw_ident and      *)
(* _load_raw_lit_str calls, in any order and any number of times, on   *)
(* an interpreter whose builtins are registered.  hist.x is the handle *)
(* the last call returned; hist.first maps every raw ident to the      *)
(* handle its first load returned, hist.first_lit every raw literal.   *)
(* ------------------------------------------------------------------ *)

\* The raw idents and raw literal strings the calls are made with.
LoadIdents == {"choice", "a", "b"}

LoadLits == {1, 2}

InitL ==
  /\ interp = pre_init(interp_default)
  /\ run = [mode |-> "loader"]
  /\ hist = [ev |-> "none", id |-> "", lit |-> 0, x |-> 0, known |-> FALSE,
             first |-> EmptyMap, first_lit |-> EmptyMap]

LLoadIdentDone(id, I2) ==
  /\ interp' = I2
  /\ hist' = [hist EXCEPT
                !.ev = "load_ident", !.id = id, !.lit = 0,
                !.x = I2.raw_id_index[id],
                !.known = Has(interp.raw_id_index, id),
                !.first = IF Has(@, id) THEN @
                          ELSE Put(@, id, I2.raw_id_index[id])]
  /\ UNCHANGED run

\* A call of _load_raw_ident(id).
LLoadIdent(id) == LLoadIdentDone(id, ld_ident(interp, id))

LLoadLitStrDone(lit, I2) ==
  /\ interp' = I2
  /\ hist' = [hist EXCEPT
                !.ev = "load_lit", !.id = "", !.lit = lit,
                !.x = I2.raw_lit_index[lit],
                !.known = Has(interp.raw_lit_index, lit),
                !.first_lit = IF Has(@, lit) THEN @
                              ELSE Put(@, lit, I2.raw_lit_index[lit])]
  /\ UNCHANGED run

\* A call of _load_raw_lit_str(lit).
LLoadLitStr(lit) == LLoadLitStrDone(lit, ld_lit_str(interp, lit))

NextL ==
  \/ \E id \in LoadIdents : LLoadIdent(id)
  \/ \E lit \in LoadLits : LLoadLitStr(lit)

SpecL == InitL /\ [][NextL]_vars

\* The entries of kind k in log that name the handle x.
LoadEntries(log, k, x) ==
  {i \in DOMAIN log : log[i].k = k /\ log[i].a.x = x}

\* index holds one handle for each raw string, no handle twice, and the log
\* holds exactly one entry of kind k for each of them.
InternedOnce(index, log, k) ==
  /\ \A r1, r2 \in DOMAIN index : index[r1] = index[r2] => r1 = r2
  /\ \A r \in DOMAIN index : Cardinality(LoadEntries(log, k, index[r])) = 1
  /\ Cardinality({i \in DOMAIN log : log[i].k = k}) = Cardinality(DOMAIN index)

\* The call from I to J, for a raw string the index held (known) or not,
\* minted a handle and logged it only when the raw string was new.
LoadedOnce(I, J, known, k) ==
  IF known THEN J = I
  ELSE /\ J.ctr = I.ctr + 1
       /\ Len(J.log) = Len(I.log) + 1
       /\ J.log[Len(J.log)].k = k
       /\ J.log[Len(J.log)].a.x = J.ctr

\* C34: loader index-interning is idempotent.  Loading the same raw
\* identifier, or the same raw literal string, any number of times returns
\* the same handle; exactly one handle is minted and exactly one index
\* entry and one undo-log entry exist for it, and a repeated load changes
\* no state.
C34_InterningIdempotent ==
  /\ [](/\ InternedOnce(interp.raw_id_index, interp.log, "LoadRawIdent")
        /\ InternedOnce(interp.raw_lit_index, interp.log, "LoadRawLitStr")
        /\ hist.ev = "load_ident" => hist.x = hist.first[hist.id]
        /\ hist.ev = "load_lit" => hist.x = hist.first_lit[hist.lit])
  /\ [][/\ hist'.ev = "load_ident" =>
             LoadedOnce(interp, interp', hist'.known, "LoadRawIdent")
        /\ hist'.ev = "load_lit" =>
             LoadedOnce(interp, interp', hist'.known, "LoadRawLitStr")]_vars

\* The raw ident "a" has been loaded again after other loads, and the call
\* returned the handle of its first load.
C34_Witness ==
  /\ hist.ev = "load_ident"
  /\ hist.id = "a"
  /\ hist.known
  /\ Has(hist.first, "b")
  /\ hist.first["b"] > hist.first["a"]
  /\ DOMAIN hist.first_lit = LoadLits
  /\ hist.x = hist.first["a"]

(* ------------------------------------------------------------------ *)
(* The choice trace driven alone: _push and _pop_pos calls on the      *)
(* trace of a fresh interpreter.  hist.ok is what the last call        *)
(* returned.                                                           *)
(* ------------------------------------------------------------------ *)

TClks == 1 .. MaxTClk

InitT ==
  /\ interp = interp_default
  /\ run = [mode |-> "trace"]
  /\ hist = [ev |-> "none", clk |-> 0, pos |-> 0, ok |-> TRUE, dup |-> FALSE]

TPushDone(clk, t) ==
  /\ interp' = [interp EXCEPT !.trace = t.trace]
  /\ hist' = [ev |-> "push", clk |-> clk, pos |-> 0, ok |-> t.ok,
              dup |-> Has(interp.trace.clk_pos, clk)]
  /\ UNCHANGED run

\* A call of _push with the clock clk and the registers of a fresh
\* interpreter.
TPush(clk) ==
  /\ Len(interp.trace.buf) < MaxTFrames
  /\ TPushDone(clk,
       trace_push(interp.trace, clk, RawChoiceRankMax, interp.ctr, interp.reg,
                  [exc_ |-> interp.exc_, res_ |-> interp.res_,
                   port |-> interp.port],
                  interp.knt_))

TPopPosDone(pos, t) ==
  /\ interp' = [interp EXCEPT !.trace = t.trace]
  /\ hist' = [ev |-> "pop_pos", clk |-> 0, pos |-> pos, ok |-> t.ok,
              dup |-> FALSE]
  /\ UNCHANGED run

\* A call of _pop_pos for the frame at position pos (counted from 1).
TPopPos(pos) == TPopPosDone(pos, trace_pop_pos(interp.trace, pos))

NextT ==
  \/ \E clk \in TClks : TPush(clk)
  \/ \E pos \in 1 .. MaxTFrames : TPopPos(pos)

SpecT == InitT /\ [][NextT]_vars

\* The clock index maps exactly the root clocks of the frames in the
\* buffer to their positions.
ClockIndexExact(trace) ==
  /\ DOMAIN trace.clk_pos = {trace.buf[p].root_clk : p \in DOMAIN trace.buf}
  /\ \A p \in DOMAIN trace.buf : trace.clk_pos[trace.buf[p].root_clk] = p

\* A push from trace t0 to t1 with clock clk, returning ok.
PushRejectsDuplicate(t0, t1, clk, ok) ==
  IF Has(t0.clk_pos, clk)
  THEN ~ok /\ t1 = t0
  ELSE /\ ok
       /\ Len(t1.buf) = Len(t0.buf) + 1
       /\ SubSeq(t1.buf, 1, Len(t0.buf)) = t0.buf
       /\ t1.buf[Len(t1.buf)].root_clk = clk
       /\ t1.clk_pos = Put(t0.clk_pos, clk, Len(t1.buf))

\* C35: trace push rejects duplicates.  A push with a clock that already
\* indexes a frame returns an error and adds no frame, leaving the frame
\* buffer and the clock index as they were; a push with a new clock
\* appends exactly one frame at the tail and indexes it by that clock; the
\* clock index always maps exactly the root clocks of the frames in the
\* buffer to their positions.
C35_PushRejectsDuplicates ==
  /\ []ClockIndexExact(interp.trace)
  /\ [][hist'.ev = "push" =>
          PushRejectsDuplicate(interp.trace, interp'.trace, hist'.clk,
                               hist'.ok)]_vars

\* A push with a clock that indexes a frame returns an error.
PushOfDuplicateFails == (hist.ev = "push" /\ hist.dup) => ~hist.ok

\* The statement of C35 holds as long as no push was made with a clock
\* that indexes a frame.
PushOfNewClock ==
  [][(hist'.ev = "push" /\ ~hist'.dup /\ ClockIndexExact(interp.trace)) =>
       /\ PushRejectsDuplicate(interp.trace, interp'.trace, hist'.clk,
                               hist'.ok)
       /\ ClockIndexExact(interp'.trace)]_vars

(* ------------------------------------------------------------------ *)
(* Literal terms (LitTerm_): a tagged pointer.  The model keeps the    *)
(* tag and, where the source keeps the address of an Arc, the value    *)
(* the Arc holds with its type; nil is the pointer part of the three   *)
(* pointerless variants.  The literals are built, cloned and compared  *)
(* alone: hist.a is the literal last built, hist.b its clone, hist.c   *)
(* the literal a was last compared with and hist.eq what eq returned.  *)
(* ------------------------------------------------------------------ *)

LIT_TERM_TAG_NONE == 0

LIT_TERM_TAG_TRUE == 1

LIT_TERM_TAG_FALSE == 2

LIT_TERM_TAG_INT == 3

LIT_TERM_TAG_STR == 4

NilPtr == [k |-> "nil", v |-> 0]

LitTerm_new_none == [tag |-> LIT_TERM_TAG_NONE, ptr |-> NilPtr]

LitTerm_new_true == [tag |-> LIT_TERM_TAG_TRUE, ptr |-> NilPtr]

LitTerm_new_false == [tag |-> LIT_TERM_TAG_FALSE, ptr |-> NilPtr]

LitTerm_new_int(v) == [tag |-> LIT_TERM_TAG_INT, ptr |-> [k |-> "i64", v |-> v]]

LitTerm_new_str(v) ==
  [tag |-> LIT_TERM_TAG_STR, ptr |-> [k |-> "SafeStr", v |-> v]]

\* impl Clone for LitTerm_: the clone of an Int or a Str shares the Arc and
\* is tagged LIT_TERM_TAG_INT.
LitTerm_clone(t) ==
  IF t.tag \in {LIT_TERM_TAG_NONE, LIT_TERM_TAG_TRUE, LIT_TERM_TAG_FALSE}
  THEN t
  ELSE [tag |-> LIT_TERM_TAG_INT, ptr |-> t.ptr]

\* impl PartialEq for LitTerm_: the set of results eq can return.  Two
\* Arcs compare by the values they hold; an Arc read at a type it was not
\* made with is undefined behaviour, and eq can return either result.
LitTerm_eq(l, r) ==
  IF l.tag = r.tag /\ l.tag \in {LIT_TERM_TAG_NONE, LIT_TERM_TAG_TRUE,
                                  LIT_TERM_TAG_FALSE}
  THEN {TRUE}
  ELSE IF l.tag = LIT_TERM_TAG_INT /\ r.tag = LIT_TERM_TAG_INT
  THEN IF l.ptr.k = "i64" /\ r.ptr.k = "i64" THEN {l.ptr.v = r.ptr.v}
       ELSE BOOLEAN
  ELSE IF l.tag = LIT_TERM_TAG_STR /\ r.tag = LIT_TERM_TAG_STR
  THEN IF l.ptr.k = "SafeStr" /\ r.ptr.k = "SafeStr" THEN {l.ptr.v = r.ptr.v}
       ELSE BOOLEAN
  ELSE {FALSE}

\* The integers and strings literals are built from.
LitInts == {0, 1, 2}

LitStrs == {"a", "b"}

LitTerms ==
  {LitTerm_new_none, LitTerm_new_true, LitTerm_new_false}
    \cup {LitTerm_new_int(v) : v \in LitInts}
    \cup {LitTerm_new_str(v) : v \in LitStrs}

NoLit == [tag |-> -1, ptr |-> NilPtr]

InitLit ==
  /\ interp = interp_default
  /\ run = [mode |-> "lit"]
  /\ hist = [ev |-> "none", a |-> NoLit, b |-> NoLit, c |-> NoLit,
             eq |-> FALSE]

\* One of the constructors new_none, new_true, new_false, new_int, new_str.
LitNew(l) ==
  /\ hist' = [ev |-> "new", a |-> l, b |-> NoLit, c |-> NoLit, eq |-> FALSE]
  /\ UNCHANGED <<interp, run>>

\* a.clone(), as the evaluator of a literal makes for the term table.
LitClone ==
  /\ hist.a # NoLit
  /\ hist' = [hist EXCEPT !.ev = "clone", !.b = LitTerm_clone(hist.a),
                          !.c = NoLit]
  /\ UNCHANGED <<interp, run>>

\* a == b, the literal against its clone.
LitEqClone ==
  /\ hist.b # NoLit
  /\ \E res \in LitTerm_eq(hist.a, hist.b) :
       hist' = [hist EXCEPT !.ev = "eq_clone", !.c = hist.b, !.eq = res]
  /\ UNCHANGED <<interp, run>>

\* a == l for a literal l built apart from a.
LitEqNew(l) ==
  /\ hist.a # NoLit
  /\ \E res \in LitTerm_eq(hist.a, l) :
       hist' = [hist EXCEPT !.ev = "eq_new", !.c = l, !.eq = res]
  /\ UNCHANGED <<interp, run>>

NextLit ==
  \/ \E l \in LitTerms : LitNew(l)
  \/ LitClone
  \/ LitEqClone
  \/ \E l \in LitTerms : LitEqNew(l)

SpecLit == InitLit /\ [][NextLit]_vars

\* C36: literal terms have value-level equality that cloning preserves.
\* For each of the five variants (None, True, False, Int, Str), a clone of
\* a literal term carries the same variant tag and value as the original
\* and compares equal to it, and two literals compare equal exactly when
\* they are of one variant and value.
C36_CloneEqual ==
  /\ hist.b # NoLit => hist.b.tag = hist.a.tag /\ hist.b.ptr = hist.a.ptr
  /\ hist.ev = "eq_clone" => hist.eq
  /\ hist.ev = "eq_new" => (hist.eq <=> hist.c = hist.a)

\* The statement of C36 holds of the variants None, True, False and Int.
CloneEqualButStr == hist.a.tag # LIT_TERM_TAG_STR => C36_CloneEqual

\* The micro-step from I evaluates an identifier, a literal or the tuple
\* of an Apply to its result handle.
WritesResult(I) ==
  \/ /\ At(I, "Enter", "InterpTerm")
     /\ I.knt_[1].code.k \in {"Ident", "IntLit"}
  \/ /\ At(I, "Enter", "InterpApplyTerm")
     /\ I.knt_[1].st.cur = <<>>

\* C37: result-register protocol.  In every module built from identifier,
\* literal, Equal and Apply expression statements and If statements, each
\* time the evaluation of a term writes its result handle the result
\* register is empty beforehand, so that evaluation never fails with an
\* already-filled result register.
C37_ResultRegisterProtocol ==
  [][(run.pc = "running" /\ hist'.ev = "step" /\ WritesResult(interp)) =>
       interp.res_ = ResEmp]_vars

\* The statement of C37 holds of the terms that are not evaluated as the
\* condition of an If.
ResultRegisterOutsideIf ==
  [][(/\ run.pc = "running"
      /\ hist'.ev = "step"
      /\ WritesResult(interp)
      /\ \A i \in DOMAIN interp.knt_ : interp.knt_[i].k # "InterpIfStm") =>
       interp.res_ = ResEmp]_vars

(* ------------------------------------------------------------------ *)
(* Progress.  interp_ is a sequential loop: once called, it goes on    *)
(* with the next iteration of resume_ or with the Fail arm until it    *)
(* returns, so both are taken whenever they stay enabled.              *)
(* ------------------------------------------------------------------ *)

SpecLive == Spec /\ WF_vars(ResumeStep) /\ WF_vars(HandleFail)

\* A call of interp_ is under way.
InCall == run.pc \in {"running", "fail"}

\* interp_ has returned Quiescent, Halt, Raise or an InterpCheck.
Returned ==
  /\ run.pc = "idle"
  /\ run.ret \in {"Quiescent", "Halt", "Raise", "Err"}

\* A step of the call under way can be taken: the guards of ResumeStep
\* and HandleFail.
CallCanStep == run.pc \in {"running", "fail"}

\* The recovery from trace t0 to t1 either raised the counter of the frame
\* at position p, which stays within a limit of at most 65535, or popped
\* a frame.
RecoveryAdvances(t0, t1, p) ==
  \/ Len(t1.buf) < Len(t0.buf)
  \/ /\ Len(t1.buf) = Len(t0.buf)
     /\ p = Len(t1.buf)
     /\ t1.buf[p].xctr = t0.buf[p].xctr + 1
     /\ t1.buf[p].xctr <= t1.buf[p].xlim
     /\ t1.buf[p].xlim <= RawChoiceRankMax

\* C38: termination.  For every finite loaded module, a call of interp_
\* eventually returns Quiescent, Halt, Raise or an InterpCheck: a call
\* under way has a next step until it has returned one of them, every
\* micro-step takes a new clock, and every recovery either raises the
\* counter of a frame whose limit is at most 65535 or pops a frame.
C38_Termination ==
  /\ [](run.calls > 0 => (Returned \/ CallCanStep))
  /\ [][(run.pc = "running" /\ run'.pc = "running") =>
          interp'.clkctr > interp.clkctr]_vars
  /\ [][(run.pc = "fail" /\ hist'.ev = "recover") =>
          RecoveryAdvances(interp.trace, interp'.trace, hist'.rec.p)]_vars

\* Every call under way has a next step until it has ended, by a return
\* or by a panic.
CallEndsOrCanStep ==
  /\ [](run.calls > 0 => (Returned \/ CallCanStep \/ run.pc = "dead"))
  /\ [][(run.pc = "running" /\ run'.pc = "running") =>
          interp'.clkctr > interp.clkctr]_vars
  /\ [][(run.pc = "fail" /\ hist'.ev = "recover") =>
          RecoveryAdvances(interp.trace, interp'.trace, hist'.rec.p)]_vars

(* ------------------------------------------------------------------ *)
(* Calls of interp_ after a Halt.                                       *)
(* ------------------------------------------------------------------ *)

\* interp_ has returned Halt and no further call is under way.
HaltReturned ==
  /\ run.pc = "idle"
  /\ run.ret = "Halt"

\* C39: Halt is final.  Once interp_ has returned Halt, every further
\* call of interp_ returns Halt again without evaluating any program
\* step, pushing any choice frame, or changing tables, unifier or log.
C39_HaltIsFinal ==
  [][(hist.halted /\ run.pc = "running") =>
       /\ run'.pc = "idle"
       /\ run'.ret = "Halt"
       /\ interp'.clkctr = interp.clkctr
       /\ interp'.trace = interp.trace
       /\ Stores(interp') = Stores(interp)]_vars

\* A call of interp_ after a Halt has been stepped.
CallAfterHalt ==
  /\ hist.halted
  /\ run.calls = 2
  /\ hist.ev = "step"

\* What the code does instead when the Halt left no continuation (no
\* choice frame was open, and resume_ had taken the continuation before
\* the failing step): the further call returns Quiescent with nothing
\* changed.
HaltThenQuiescent ==
  [][(hist.halted /\ run.pc = "running" /\ interp.knt_ = <<>>
        /\ interp.exc_ = None) =>
       /\ run'.pc = "idle"
       /\ run'.ret = "Quiescent"
       /\ interp'.clkctr = interp.clkctr
       /\ Stores(interp') = Stores(interp)]_vars

====
